---- MODULE Spec2Model ----
(***************************************************************************)
(* REDCap log reconciliation: the detail-string parser of REDCapLog and    *)
(* the replay engine project_data_to_db, which brings the relational       *)
(* mirror (patients, CRF_RedCap, CRF_Data_RedCap, backup_info_RedCap,      *)
(* airflow_logs) in line with the service's record logs.                   *)
(*                                                                         *)
(* Python strings are sequences of one-character strings; positions are    *)
(* 0-based as in the source, and slices follow Python's clamping rules.    *)
(***************************************************************************)
EXTENDS Integers, Sequences, FiniteSets, TLC

(***************************************************************************)
(* Python string primitives                                                *)
(***************************************************************************)
\* the value of Body at v, with v evaluated once
Bind(v, Body(_)) == CHOOSE out \in {Body(x) : x \in {v}} : TRUE

Min(a, b) == IF a < b THEN a ELSE b

Max(a, b) == IF a > b THEN a ELSE b

\* s[i], 0-based
At(s, i) == s[i + 1]

\* s[a:b]
Slice(s, a, b) == SubSeq(s, Min(a, Len(s)) + 1, Min(b, Len(s)))

\* s[a:]
SliceFrom(s, a) == Slice(s, a, Len(s))

\* s.find(sub): the least 0-based position of sub in s, -1 when absent
\* (str.index raises ValueError exactly when this is -1)
Find(s, sub) ==
    LET hits == {i \in 0..(Len(s) - Len(sub)) : Slice(s, i, i + Len(sub)) = sub}
    IN IF hits = {} THEN -1 ELSE CHOOSE i \in hits : \A j \in hits : i <= j

Digits == {"0", "1", "2", "3", "4", "5", "6", "7", "8", "9"}

DigitVal(c) ==
    CASE c = "0" -> 0 [] c = "1" -> 1 [] c = "2" -> 2 [] c = "3" -> 3
      [] c = "4" -> 4 [] c = "5" -> 5 [] c = "6" -> 6 [] c = "7" -> 7
      [] c = "8" -> 8 [] c = "9" -> 9

RECURSIVE DecimalValue(_)
DecimalValue(s) ==
    IF s = <<>> THEN 0
    ELSE 10 * DecimalValue(SubSeq(s, 1, Len(s) - 1)) + DigitVal(s[Len(s)])

RECURSIVE StripSpaces(_)
\* str.strip() restricted to the blank character
StripSpaces(s) ==
    IF s # <<>> /\ s[1] = " " THEN StripSpaces(Tail(s))
    ELSE IF s # <<>> /\ s[Len(s)] = " " THEN StripSpaces(SubSeq(s, 1, Len(s) - 1))
    ELSE s

\* int(text): surrounding blanks and one sign are accepted, then digits only
IntBody(s) ==
    LET t == StripSpaces(s)
    IN IF t # <<>> /\ t[1] \in {"+", "-"} THEN Tail(t) ELSE t

IntOk(s) == IntBody(s) # <<>> /\ \A i \in 1..Len(IntBody(s)) : IntBody(s)[i] \in Digits

IntOf(s) ==
    LET t == StripSpaces(s)
    IN IF t # <<>> /\ t[1] = "-" THEN 0 - DecimalValue(IntBody(s))
       ELSE DecimalValue(IntBody(s))

(***************************************************************************)
(* REDCapLog.extract_details                                               *)
(***************************************************************************)
InstancePrefix == <<"[", "i", "n", "s", "t", "a", "n", "c", "e", " ", "=", " ">>

InstanceKey == <<"[", "i", "n", "s", "t", "a", "n", "c", "e", "]">>

\* one item of the Python dict: a string value (isInt = FALSE, in s) or the
\* integer stored under "[instance]" (isInt = TRUE, in n)
StrItem(k, v) == [k |-> k, isInt |-> FALSE, s |-> v, n |-> 0]

IntItem(k, v) == [k |-> k, isInt |-> TRUE, s |-> <<>>, n |-> v]

\* details_dict[key] = item: overwrite in place, or append (insertion order)
DictSet(d, item) ==
    IF \E i \in 1..Len(d) : d[i].k = item.k
    THEN [i \in 1..Len(d) |-> IF d[i].k = item.k THEN item ELSE d[i]]
    ELSE Append(d, item)

DictHas(d, key) == \E i \in 1..Len(d) : d[i].k = key

DictGet(d, key) == d[CHOOSE i \in 1..Len(d) : d[i].k = key]

DictKeys(d) == [i \in 1..Len(d) |-> d[i].k]

Raised(why) == [ok |-> FALSE, dict |-> <<>>, err |-> why]

Returned(d) == [ok |-> TRUE, dict |-> d, err |-> "none"]

RECURSIVE ScanQuoted(_, _)
\* the inner `while not found_val` loop: the final value of right
ScanQuoted(details, right) ==
    LET n == Len(details)
    IN IF right = n THEN right
       ELSE IF At(details, right) = "'"
            THEN IF right + 1 >= n THEN right
                 ELSE IF At(details, right + 1) = "," THEN right + 1
                      ELSE ScanQuoted(details, right + 1)
            ELSE ScanQuoted(details, right + 1)

\* the `else` branch for values such as `q1003 = checked`
ScanBare(details, start_val) ==
    LET c == Find(SliceFrom(details, start_val), <<",">>)
    IN IF c # -1 THEN c + start_val ELSE Len(details)

\* the position right ends at once the value starting at start_val is consumed
ValueEnd(details, start_val) ==
    IF At(details, start_val) = "'" THEN ScanQuoted(details, start_val + 1)
    ELSE ScanBare(details, start_val)

\* the token starting at left: the item it adds to the dict and the position
\* right ends at, or the exception it raises
InstanceTokenAt(details, left) ==
    Bind(SliceFrom(details, left), LAMBDA substring :
      Bind(<<Find(substring, <<"=", " ">>) + 2 + left, Find(substring, <<"]">>)>>,
        LAMBDA p :
          IF p[2] = -1 THEN [raised |-> TRUE, err |-> "ValueError"]
          ELSE IF ~IntOk(Slice(details, p[1], p[2] + left))
          THEN [raised |-> TRUE, err |-> "ValueError"]
          ELSE [raised |-> FALSE, err |-> "none",
                item |-> IntItem(InstanceKey, IntOf(Slice(details, p[1], p[2] + left))),
                right |-> p[2] + left + 1]))

VariableTokenAt(details, left) ==
    Bind(Find(SliceFrom(details, left), <<" ", "=", " ">>), LAMBDA eq :
      IF eq = -1 THEN [raised |-> TRUE, err |-> "ValueError"]
      ELSE IF eq + left + 3 >= Len(details) THEN [raised |-> TRUE, err |-> "IndexError"]
      ELSE Bind(ValueEnd(details, eq + left + 3), LAMBDA right :
             [raised |-> FALSE, err |-> "none",
              item |-> StrItem(Slice(details, left, eq + left),
                               Slice(details, eq + left + 3, right)),
              right |-> right]))

TokenAt(details, left) ==
    IF At(details, left) = "["
    THEN IF Slice(details, left, left + 12) = InstancePrefix
         THEN InstanceTokenAt(details, left)
         ELSE [raised |-> TRUE, err |-> "This case should not be possible"]
    ELSE VariableTokenAt(details, left)

RECURSIVE ExtractLoop(_, _, _, _)
\* one pass of `while right < n` and the passes that follow it; every pass
\* ends with left = right + 2, right = left + 1
ExtractLoop(details, left, right, d) ==
    IF ~(right < Len(details)) THEN Returned(d)
    ELSE Bind(TokenAt(details, left), LAMBDA t :
           IF t.raised THEN Raised(t.err)
           ELSE Bind(DictSet(d, t.item), LAMBDA d2 :
                  ExtractLoop(details, t.right + 2, t.right + 3, d2)))

extract_details(details) ==
    IF Len(details) <= 1 THEN Returned(<<>>)
    ELSE ExtractLoop(details, 0, 1, <<>>)

(***************************************************************************)
(* extract_details statement by statement: the cursors of the two loops    *)
(*   phase "outer": at `while right < n`                                   *)
(*   phase "inner": at `while not found_val`                               *)
(*   phase "close": the value ends at right; lines 131-135 are next        *)
(*   phase "end"  : returned or raised                                     *)
(***************************************************************************)
Cursor(phase, left, right, start_val, variable, d, result) ==
    [phase |-> phase, left |-> left, right |-> right, start_val |-> start_val,
     variable |-> variable, dict |-> d, result |-> result,
     done |-> phase = "end"]

\* lines 63-69
ScanBegin(details) ==
    IF Len(details) <= 1
    THEN Cursor("end", 0, 0, 0, <<>>, <<>>, Returned(<<>>))
    ELSE Cursor("outer", 0, 1, 0, <<>>, <<>>, Returned(<<>>))

ScanRaise(c, why) == [c EXCEPT !.phase = "end", !.done = TRUE, !.result = Raised(why)]

\* lines 71-95 and 121-129: the loop test, the [instance = N] token, the name
\* of a variable and the start of its value
OuterStep(details, c) ==
    IF ~(c.right < Len(details))
    THEN [c EXCEPT !.phase = "end", !.done = TRUE, !.result = Returned(c.dict)]
    ELSE IF At(details, c.left) = "["
    THEN IF Slice(details, c.left, c.left + 12) # InstancePrefix
         THEN ScanRaise(c, "This case should not be possible")
         ELSE Bind(InstanceTokenAt(details, c.left), LAMBDA t :
                IF t.raised THEN ScanRaise(c, t.err)
                ELSE [c EXCEPT !.dict = DictSet(@, t.item),
                               !.left = t.right + 2, !.right = t.right + 3])
    ELSE Bind(Find(SliceFrom(details, c.left), <<" ", "=", " ">>), LAMBDA eq :
           IF eq = -1 THEN ScanRaise(c, "ValueError")
           ELSE IF eq + c.left + 3 >= Len(details) THEN ScanRaise(c, "IndexError")
           ELSE IF At(details, eq + c.left + 3) = "'"
           THEN [c EXCEPT !.phase = "inner", !.start_val = eq + c.left + 3,
                          !.variable = Slice(details, c.left, eq + c.left),
                          !.right = eq + c.left + 4]
           ELSE [c EXCEPT !.phase = "close", !.start_val = eq + c.left + 3,
                          !.variable = Slice(details, c.left, eq + c.left),
                          !.right = ScanBare(details, eq + c.left + 3)])

\* a scan that stays on a quote that does not close the value
InnerStepStuck(details, c) ==
    IF c.right = Len(details) THEN [c EXCEPT !.phase = "close"]
    ELSE IF At(details, c.right) = "'"
    THEN IF c.right + 1 >= Len(details) THEN [c EXCEPT !.phase = "close"]
         ELSE IF At(details, c.right + 1) = ","
         THEN [c EXCEPT !.phase = "close", !.right = c.right + 1]
         ELSE c
    ELSE [c EXCEPT !.right = c.right + 1]

\* lines 97-119: one pass of `while not found_val`
InnerStep(details, c) ==
    IF c.right = Len(details) THEN [c EXCEPT !.phase = "close"]
    ELSE IF At(details, c.right) = "'"
    THEN IF c.right + 1 >= Len(details) THEN [c EXCEPT !.phase = "close"]
         ELSE IF At(details, c.right + 1) = ","
         THEN [c EXCEPT !.phase = "close", !.right = c.right + 1]
         ELSE [c EXCEPT !.right = c.right + 1]
    ELSE [c EXCEPT !.right = c.right + 1]

\* lines 131-135
CloseStep(details, c) ==
    [c EXCEPT !.phase = "outer",
              !.dict = DictSet(@, StrItem(c.variable,
                                          Slice(details, c.start_val, c.right))),
              !.left = c.right + 2, !.right = c.right + 3]

\* REDCapLog.get_instance on the parsed mapping; NoInstance stands for None
NoInstance == [some |-> FALSE, n |-> 0]

SomeInstance(n) == [some |-> TRUE, n |-> n]

\* get_instance returning the stored instance whatever else the mapping holds
get_instance_any(d) ==
    IF DictHas(d, InstanceKey) THEN SomeInstance(DictGet(d, InstanceKey).n)
    ELSE NoInstance

get_instance(d) ==
    IF DictHas(d, InstanceKey)
    THEN IF Len(d) = 1 THEN NoInstance ELSE SomeInstance(DictGet(d, InstanceKey).n)
    ELSE NoInstance

(***************************************************************************)
(* REDCapLog.__init__, get_action and get_crf_name                         *)
(***************************************************************************)
Contains(s, sub) == Find(s, sub) # -1

\* re.search('[0-9]+', action): 0-based start of the first run of digits, -1 when none
FirstDigit(action) ==
    LET ds == {i \in 0..(Len(action) - 1) : At(action, i) \in Digits}
    IN IF ds = {} THEN -1 ELSE CHOOSE i \in ds : \A j \in ds : i <= j

RECURSIVE DigitRunEnd(_, _)
\* the position after the run of digits starting at i
DigitRunEnd(s, i) ==
    IF i < Len(s) /\ At(s, i) \in Digits THEN DigitRunEnd(s, i + 1) ELSE i

\* self.patient_name = re.search('[0-9]+', action).group()
patient_name_of(action) ==
    Slice(action, FirstDigit(action), DigitRunEnd(action, FirstDigit(action)))

\* self.action = action.split('(', 1)[0].strip()
action_head(action) ==
    LET p == Find(action, <<"(">>)
    IN StripSpaces(IF p = -1 THEN action ELSE Slice(action, 0, p))

\* re.search("(?<=Arm\s)\d+(?=:)", action): a run of digits right after "Arm "
\* and right before ":"
ArmMatches(action) ==
    {i \in 4..(Len(action) - 1) :
        /\ Slice(action, i - 4, i) = <<"A", "r", "m", " ">>
        /\ At(action, i) \in Digits
        /\ DigitRunEnd(action, i) < Len(action)
        /\ At(action, DigitRunEnd(action, i)) = ":"}

\* whether REDCapLog(project, action, timestamp, details) is constructed; when
\* not, the constructor raises (no record number, no arm clause, or the parser)
ConstructError(action, details) ==
    IF FirstDigit(action) = -1 THEN "AttributeError"
    ELSE IF ~extract_details(details).ok THEN extract_details(details).err
    ELSE IF ArmMatches(action) = {} THEN "AttributeError"
    ELSE "none"

Constructs(action, details) == ConstructError(action, details) = "none"

LastSpace(s) ==
    LET sp == {i \in 0..(Len(s) - 1) : At(s, i) = " "}
    IN IF sp = {} THEN -1 ELSE CHOOSE i \in sp : \A j \in sp : i >= j

UpdateRecord == <<"U", "p", "d", "a", "t", "e", " ", "r", "e", "c", "o", "r", "d">>

DeleteRecord == <<"D", "e", "l", "e", "t", "e", " ", "r", "e", "c", "o", "r", "d">>

CreateRecord == <<"C", "r", "e", "a", "t", "e", " ", "r", "e", "c", "o", "r", "d">>

\* REDCapLog.get_action on self.action; "None" when no branch returns
get_action(head) ==
    LET action == IF LastSpace(head) = -1 THEN <<>> ELSE Slice(head, 0, LastSpace(head))
    IN IF Contains(action, UpdateRecord) THEN "UPDATE"
       ELSE IF Contains(action, DeleteRecord) THEN "DELETE"
       ELSE IF Contains(action, CreateRecord) THEN "CREATE"
       ELSE "None"

\* characters of the class [a-zA-z0-9] that the model's names use
OptionChars == Digits \cup {"a", "b", "r", "x", "y", "z", "A", "R", "_", "[", "]"}

\* re.fullmatch(rf"^{field}(\([a-zA-z0-9]*\.?[a-zA-z0-9]*\))?$", detail_var)
FieldMatches(field, detail_var) ==
    \/ detail_var = field
    \/ /\ Len(detail_var) >= Len(field) + 2
       /\ Slice(detail_var, 0, Len(field)) = field
       /\ At(detail_var, Len(field)) = "("
       /\ At(detail_var, Len(detail_var) - 1) = ")"
       /\ LET inner == Slice(detail_var, Len(field) + 1, Len(detail_var) - 1)
          IN /\ \A j \in 1..Len(inner) : inner[j] \in OptionChars \cup {"."}
             /\ Cardinality({j \in 1..Len(inner) : inner[j] = "."}) <= 1

\* REDCapLog.get_crf_name: the first instrument of the map owning a matching
\* field; <<>> stands for None
InstruClaims(entry, d) ==
    \E f \in 1..Len(entry.fields) : \E v \in 1..Len(d) :
        FieldMatches(entry.fields[f], d[v].k)

\* a resolver that looks at the variables first: the form of the first
\* variable that any form claims
get_crf_name_by_variable(d, instru_field_map) ==
    LET claimed == {v \in 1..Len(d) : \E m \in 1..Len(instru_field_map) :
                      \E f \in 1..Len(instru_field_map[m].fields) :
                         FieldMatches(instru_field_map[m].fields[f], d[v].k)}
        first == CHOOSE v \in claimed : \A o \in claimed : v <= o
        hits == {m \in 1..Len(instru_field_map) :
                   \E f \in 1..Len(instru_field_map[m].fields) :
                      FieldMatches(instru_field_map[m].fields[f], d[first].k)}
    IN IF claimed = {} THEN <<>>
       ELSE instru_field_map[CHOOSE m \in hits : \A o \in hits : m <= o].instru

get_crf_name(d, instru_field_map) ==
    LET hits == {m \in 1..Len(instru_field_map) : InstruClaims(instru_field_map[m], d)}
    IN IF hits = {} THEN <<>>
       ELSE instru_field_map[CHOOSE m \in hits : \A o \in hits : m <= o].instru

(***************************************************************************)
(* The REDCap project: metadata, field map, repeating instruments          *)
(***************************************************************************)
RecordId == <<"r", "e", "c", "o", "r", "d", "_", "i", "d">>

CompleteSuffix == <<"_", "c", "o", "m", "p", "l", "e", "t", "e">>

StatusSuffix == <<"_", "s", "t", "a", "t", "u", "s">>

FormA == <<"A">>

FormR == <<"R">>

FieldA == <<"a">>

FieldR == <<"r">>

ProjectTitle == "P"

\* project.metadata: form A holds record_id, a and A_status; form R holds the
\* checkbox r
Metadata ==
    << [field_name |-> RecordId, form_name |-> FormA],
       [field_name |-> FieldA, form_name |-> FormA],
       [field_name |-> FormA \o StatusSuffix, form_name |-> FormA],
       [field_name |-> FieldR, form_name |-> FormR] >>

\* project.export_repeating_instruments_events()
RepeatingInstruEvents == {FormR}

RECURSIVE FieldMapOf(_, _)
\* the first loop of get_project_instru_field_map over metadata[1..k]
FieldMapOf(metadata, k) ==
    IF k = 0 THEN <<>>
    ELSE Bind(FieldMapOf(metadata, k - 1), LAMBDA m :
           LET var == metadata[k]
           IN IF var.field_name = RecordId THEN m
              ELSE IF \E j \in 1..Len(m) : m[j].instru = var.form_name
              THEN [j \in 1..Len(m) |->
                      IF m[j].instru = var.form_name
                      THEN [m[j] EXCEPT !.fields = Append(@, var.field_name)]
                      ELSE m[j]]
              ELSE Append(m, [instru |-> var.form_name, fields |-> <<var.field_name>>]))

get_project_instru_field_map(metadata) ==
    Bind(FieldMapOf(metadata, Len(metadata)), LAMBDA m :
      [j \in 1..Len(m) |->
          [m[j] EXCEPT !.fields = Append(@, m[j].instru \o CompleteSuffix)]])

get_repeating_instru(has_repeating, instru_field_map) ==
    IF has_repeating = 1
    THEN {instru_field_map[j].instru : j \in
            {k \in 1..Len(instru_field_map) :
                instru_field_map[k].instru \in RepeatingInstruEvents}}
    ELSE {}

(***************************************************************************)
(* grab_logs                                                               *)
(***************************************************************************)
\* None for start_date / end_date
NoDate == -1

\* datetime(2000, 1, 1), the start for a mirror without backup info
Epoch == 0

\* project.export_logging(begin_time, end_time, log_type): the logs of the type
\* inside the window, in the order the service holds them
export_logging(logging, begin_time, end_time, log_type) ==
    SelectSeq(logging, LAMBDA l : /\ l.log_type = log_type
                                  /\ begin_time <= l.timestamp
                                  /\ l.timestamp <= end_time)

RECURSIVE InsertBeforeEqual(_, _)
\* insert log in front of the entries of the same timestamp
InsertBeforeEqual(sorted, log) ==
    IF sorted = <<>> THEN <<log>>
    ELSE IF sorted[Len(sorted)].timestamp < log.timestamp THEN Append(sorted, log)
    ELSE Bind(SubSeq(sorted, 1, Len(sorted) - 1), LAMBDA front :
           Append(InsertBeforeEqual(front, log), sorted[Len(sorted)]))

RECURSIVE InsertByTime(_, _)
\* insert log behind every entry whose timestamp is not later (stable)
InsertByTime(sorted, log) ==
    IF sorted = <<>> THEN <<log>>
    ELSE IF sorted[Len(sorted)].timestamp <= log.timestamp THEN Append(sorted, log)
    ELSE Bind(SubSeq(sorted, 1, Len(sorted) - 1), LAMBDA front :
           Append(InsertByTime(front, log), sorted[Len(sorted)]))

RECURSIVE SortByTime(_)
\* logs.sort(key=lambda log: datetime.strptime(log["timestamp"], ...))
SortByTime(logs) ==
    IF logs = <<>> THEN <<>>
    ELSE Bind(SortByTime(SubSeq(logs, 1, Len(logs) - 1)), LAMBDA sorted :
           InsertByTime(sorted, logs[Len(logs)]))

\* a plausible slip: the merged streams are processed as concatenated
MergeUnsorted(log_add, log_delete, log_edit) == log_edit \o log_delete \o log_add

\* logs = log_add + log_delete + log_edit; logs.sort(...)
MergeStreams(log_add, log_delete, log_edit) ==
    Bind(log_add \o log_delete \o log_edit, LAMBDA logs : SortByTime(logs))

start_of_window(backup_info, start_date) ==
    IF start_date = NoDate
    THEN IF Len(backup_info) = 0 THEN Epoch ELSE backup_info[1].last_backup
    ELSE start_date

end_of_window(clock, end_date) == IF end_date = NoDate THEN clock ELSE end_date

(***************************************************************************)
(* The mirror database and the event sink                                  *)
(*   db.patients          : patient_name, id = position                    *)
(*   db.CRF_RedCap        : id_patient, crf_name, instance, deleted,       *)
(*                          verified, id = position                        *)
(*   db.CRF_Data_RedCap   : id_crf, redcap_variable, value                 *)
(*   db.backup_info_RedCap: project_name, last_backup                      *)
(*   db.airflow_logs      : type, patient_name, timestamp, about           *)
(*   db.has_airflow_logs  : whether the airflow_logs table exists          *)
(*   db.field_key         : whether CRF_Data_RedCap has a unique key on    *)
(*                          (id_crf, redcap_variable)                      *)
(***************************************************************************)
\* a sink that records an ERROR and returns
log_to_db_quiet(db, patient_name, timestamp, level, about) ==
    IF ~db.has_airflow_logs THEN [db |-> db, raised |-> TRUE]
    ELSE [db |-> [db EXCEPT !.airflow_logs =
                    Append(@, [type |-> level, patient_name |-> patient_name,
                               timestamp |-> timestamp, about |-> about])],
          raised |-> FALSE]

\* utils.log_to_db: raises when the airflow_logs table is missing or the level
\* is ERROR; the message is inserted before an ERROR raises
log_to_db(db, patient_name, timestamp, level, about) ==
    IF ~db.has_airflow_logs THEN [db |-> db, raised |-> TRUE]
    ELSE [db |-> [db EXCEPT !.airflow_logs =
                    Append(@, [type |-> level, patient_name |-> patient_name,
                               timestamp |-> timestamp, about |-> about])],
          raised |-> level = "ERROR"]

\* rows of a data frame that satisfy a test, in order
Filter(rows, Test(_)) == SelectSeq(rows, Test)

CellOf(row, variable) ==
    row.cells[CHOOSE c \in 1..Len(row.cells) : row.cells[c].redcap_variable = variable]

\* export_records_wrapper: the rows of the form with a filled _complete value,
\* narrowed to the instance when one is given
export_records_wrapper(db, patient_name, timestamp, response, crf_name, instance) ==
    IF response.rows = <<>> THEN [db |-> db, raised |-> FALSE, form_df |-> <<>>]
    ELSE Bind(Filter(response.rows,
                LAMBDA r : CellOf(r, crf_name \o CompleteSuffix).value # ""),
           LAMBDA form_df :
      IF ~(instance.some /\ instance.n # 0)
      THEN [db |-> db, raised |-> FALSE, form_df |-> form_df]
      ELSE Bind(IF ~response.repeat_columns
                THEN log_to_db(db, patient_name, timestamp, "WARNING",
                               "no repeating instances")
                ELSE [db |-> db, raised |-> FALSE],
             LAMBDA w1 :
        IF w1.raised THEN [db |-> w1.db, raised |-> TRUE, form_df |-> <<>>]
        \* form_df["redcap_repeat_instance"] on a frame without the column
        ELSE IF ~response.repeat_columns
        THEN [db |-> w1.db, raised |-> TRUE, form_df |-> <<>>]
        ELSE Bind(IF \E k \in 1..Len(form_df) :
                        form_df[k].redcap_repeat_instance = instance.n
                  THEN [db |-> w1.db, raised |-> FALSE]
                  ELSE log_to_db(w1.db, patient_name, timestamp, "WARNING",
                                 "instance not available"),
               LAMBDA w2 :
          IF w2.raised THEN [db |-> w2.db, raised |-> TRUE, form_df |-> <<>>]
          ELSE [db |-> w2.db, raised |-> FALSE,
                form_df |-> Filter(form_df,
                    LAMBDA r : r.redcap_repeat_instance = instance.n)])))

RECURSIVE ReplaceTriple(_)
\* str.replace("___", "(")
ReplaceTriple(v) ==
    IF Len(v) < 3 THEN v
    ELSE IF SubSeq(v, 1, 3) = <<"_", "_", "_">>
         THEN <<"(">> \o ReplaceTriple(SubSeq(v, 4, Len(v)))
         ELSE <<v[1]>> \o ReplaceTriple(Tail(v))

\* checkbox columns a___1 are stored as a(1)
MeltName(v) ==
    IF Contains(v, <<"_", "_", "_">>) THEN ReplaceTriple(v \o <<")">>) ELSE v

RECURSIVE Flatten(_)
Flatten(ss) ==
    IF ss = <<>> THEN <<>>
    ELSE Bind(Tail(ss), LAMBDA rest : ss[1] \o Flatten(rest))

\* record_df.melt(var_name="redcap_variable") after the renaming: one row per
\* column and frame row, column by column
Melt(form_df) ==
    IF form_df = <<>> THEN <<>>
    ELSE Flatten([c \in 1..Len(form_df[1].cells) |->
            [k \in 1..Len(form_df) |->
                [redcap_variable |-> MeltName(form_df[k].cells[c].redcap_variable),
                 value |-> form_df[k].cells[c].value]]])

HasVariable(record_df, variable) ==
    \E k \in 1..Len(record_df) : record_df[k].redcap_variable = variable

\* record_df.loc[record_df["redcap_variable"] == variable, "value"].iloc[0]
FirstValue(record_df, variable) ==
    record_df[CHOOSE k \in 1..Len(record_df) :
        /\ record_df[k].redcap_variable = variable
        /\ \A j \in 1..(k - 1) : record_df[j].redcap_variable # variable].value

\* the status test shared by the update and the insert branch
StatusVerifies(record_df, crf_name) ==
    /\ HasVariable(record_df, crf_name \o StatusSuffix)
    /\ \/ FirstValue(record_df, crf_name \o StatusSuffix) = "4"
       \/ FirstValue(record_df, crf_name \o StatusSuffix) = "5"

\* the verified flag of a row that already exists, written from the status
\* on every update
verified_from_status(old, record_df, crf_name) ==
    IF StatusVerifies(record_df, crf_name) THEN 1 ELSE 0

\* the verified flag of a row that already exists: only ever set to 1
verified_on_update(old, record_df, crf_name) ==
    IF StatusVerifies(record_df, crf_name) THEN 1 ELSE old

\* the verified flag of a row being inserted
verified_on_insert(record_df, crf_name) ==
    IF StatusVerifies(record_df, crf_name) THEN 1 ELSE 0

\* one row of the loop: UPDATE when the variable was among db_vars, else INSERT
UpsertRow(data, row, crf_id, db_vars) ==
    IF row.redcap_variable \in db_vars
    THEN [k \in 1..Len(data) |->
            IF data[k].id_crf = crf_id /\ data[k].redcap_variable = row.redcap_variable
            THEN [data[k] EXCEPT !.value = row.value]
            ELSE data[k]]
    ELSE Append(data, [id_crf |-> crf_id, value |-> row.value,
                       redcap_variable |-> row.redcap_variable])

\* the plain INSERT of the loop meets a row of the same (id_crf,
\* redcap_variable) in a table that has a unique key on the pair
InsertCollides(data, row, crf_id, db_vars, keyed) ==
    /\ keyed
    /\ row.redcap_variable \notin db_vars
    /\ \E k \in 1..Len(data) :
          data[k].id_crf = crf_id /\ data[k].redcap_variable = row.redcap_variable

RECURSIVE UpsertData(_, _, _, _, _, _)
\* the loop over record_df.iterrows() in the update branch, from row k on:
\* db_vars is read once, before the loop; a statement the table rejects raises
\* and leaves what the statements before it wrote
UpsertData(data, record_df, k, crf_id, db_vars, keyed) ==
    IF k > Len(record_df) THEN [data |-> data, raised |-> FALSE]
    ELSE IF InsertCollides(data, record_df[k], crf_id, db_vars, keyed)
    THEN [data |-> data, raised |-> TRUE]
    ELSE Bind(UpsertRow(data, record_df[k], crf_id, db_vars), LAMBDA next :
           UpsertData(next, record_df, k + 1, crf_id, db_vars, keyed))

\* INSERT ... ON DUPLICATE KEY UPDATE of one row: the row of the same (id_crf,
\* redcap_variable) is overwritten when the table has a unique key on the
\* pair, and a row is added otherwise
InsertOrUpdate(data, row, crf_id, keyed) ==
    IF /\ keyed
       /\ \E k \in 1..Len(data) :
             data[k].id_crf = crf_id /\ data[k].redcap_variable = row.redcap_variable
    THEN [k \in 1..Len(data) |->
            IF data[k].id_crf = crf_id /\ data[k].redcap_variable = row.redcap_variable
            THEN [data[k] EXCEPT !.value = row.value]
            ELSE data[k]]
    ELSE Append(data, [id_crf |-> crf_id, value |-> row.value,
                       redcap_variable |-> row.redcap_variable])

RECURSIVE df_to_db_table(_, _, _, _, _)
\* utils.df_to_db_table into CRF_Data_RedCap, from row k of the frame on
df_to_db_table(data, record_df, k, crf_id, keyed) ==
    IF k > Len(record_df) THEN data
    ELSE Bind(InsertOrUpdate(data, record_df[k], crf_id, keyed), LAMBDA next :
           df_to_db_table(next, record_df, k + 1, crf_id, keyed))
(***************************************************************************)
(* Bounds and the service's catalogue of logs and records                  *)
(***************************************************************************)
MaxLogs == 2

MaxTime == 2

MaxRuns == 2

MaxPairs == 2

MaxValueParts == 2

MaxEvents == 3

Patient1 == <<"1">>

Patient2 == <<"2">>

PatientNames == {Patient1, Patient2}

ArmClause == <<" ", "(", "A", "r", "m", " ", "1", ":", " ", "x", ")">>

Sep == <<",", " ">>

Eq == <<" ", "=", " ">>

Quoted(v) == <<"'">> \o v \o <<"'">>

Checked == <<"c", "h", "e", "c", "k", "e", "d">>

InstanceToken(digits) == InstancePrefix \o digits \o <<"]">>

\* what the service puts behind the verb of a change made through its API
ViaApi == <<" ", "(", "A", "P", "I", ")">>

\* the verb of a log for a survey response
UpdateResponse == <<"U", "p", "d", "a", "t", "e", " ", "R", "e", "s", "p", "o", "n", "s", "e">>

LogKind(verb, patient, clause, details, log_type) ==
    [action |-> verb \o <<" ">> \o patient \o clause, details |-> details,
     log_type |-> log_type]

\* the action and detail texts the service writes in this model
LogKinds ==
    { LogKind(CreateRecord, Patient1, ArmClause, FieldA \o Eq \o Quoted(<<"x">>),
              "record_add"),
      LogKind(UpdateRecord, Patient1, ArmClause, FieldA \o Eq \o Quoted(<<"y">>),
              "record_edit"),
      LogKind(DeleteRecord, Patient1, ArmClause, RecordId \o Eq \o Quoted(Patient1),
              "record_delete"),
      LogKind(UpdateRecord, Patient1, ArmClause,
              InstanceToken(<<"2">>) \o Sep \o FieldR \o <<"(", "1", ")">> \o Eq \o Checked,
              "record_edit"),
      LogKind(UpdateRecord, Patient2, ArmClause,
              FieldR \o <<"(", "1", ")">> \o Eq \o Checked, "record_edit"),
      LogKind(UpdateRecord, Patient1, ArmClause, <<"z">> \o Eq \o Quoted(<<"x">>),
              "record_edit"),
      LogKind(DeleteRecord, Patient2, ArmClause, <<>>, "record_delete"),
      LogKind(CreateRecord, Patient2, <<>>, FieldA \o Eq \o Quoted(<<"x">>),
              "record_add"),
      LogKind(UpdateRecord, Patient2, ArmClause, <<"[", "x">>, "record_edit"),
      LogKind(UpdateRecord, Patient1, ArmClause, <<>>, "record_edit"),
      LogKind(DeleteRecord \o ViaApi, Patient2, ArmClause,
              RecordId \o Eq \o Quoted(Patient2), "record_delete"),
      LogKind(UpdateResponse, Patient1, ArmClause, FieldA \o Eq \o Quoted(<<"y">>),
              "record_edit") }

Forms == {FormA, FormR}

Keys == PatientNames \X Forms

Cell(variable, value) == [redcap_variable |-> variable, value |-> value]

RowA(patient, a, status, complete) ==
    [redcap_repeat_instance |-> 0,
     cells |-> << Cell(RecordId, patient), Cell(FieldA, a),
                  Cell(FormA \o StatusSuffix, status),
                  Cell(FormA \o CompleteSuffix, complete) >>]

RowR(patient, instance, r, complete) ==
    [redcap_repeat_instance |-> instance,
     cells |-> << Cell(RecordId, patient), Cell(FieldR \o <<"_", "_", "_", "1">>, r),
                  Cell(FormR \o CompleteSuffix, complete) >>]

Response(columns, rows) == [repeat_columns |-> columns, rows |-> rows]

\* what project.export_records(records=[patient], forms=[form]) may return
Responses(key, repeating) ==
    LET p == key[1]
        cols == repeating = 1
    IN IF key[2] = FormA
       THEN { Response(cols, <<>>),
              Response(cols, <<RowA(p, "x", "2", "0")>>),
              Response(cols, <<RowA(p, "y", "4", "2")>>),
              Response(cols, <<RowA(p, "y", "5", "2")>>),
              Response(cols, <<RowA(p, "", "", "")>>) }
       ELSE IF cols
       THEN { Response(cols, <<>>),
              Response(cols, <<RowR(p, 1, "1", "2")>>),
              Response(cols, <<RowR(p, 1, "1", "2"), RowR(p, 2, "0", "0")>>),
              Response(cols, <<RowR(p, 2, "1", "2")>>) }
       ELSE { Response(cols, <<>>),
              Response(cols, <<RowR(p, 0, "1", "2")>>) }

\* the orders in which the service may deliver a stream
Orders(logs) ==
    {[k \in 1..Len(logs) |-> logs[f[k]]] :
        f \in {g \in [1..Len(logs) -> 1..Len(logs)] :
                 \A a, b \in 1..Len(logs) : a # b => g[a] # g[b]}}

Installation(repeating, airflow, backup) ==
    [repeating |-> repeating, airflow |-> airflow, backup |-> backup,
     field_key |-> TRUE, legacy |-> FALSE, title |-> ProjectTitle]

\* the mirrors a run may start on: with or without the airflow_logs table and
\* the backup_info_RedCap row, for a project with or without repeating forms
Installations ==
    { Installation(1, TRUE, TRUE),
      Installation(0, TRUE, TRUE),
      Installation(1, FALSE, TRUE),
      Installation(1, TRUE, FALSE) }

\* level: Literal["INFO", "WARNING", "ERROR"]
Levels == {"INFO", "WARNING", "ERROR"}

\* a project title other than the live project's
OtherTitle == "Q"

\* mirrors whose backup_info_RedCap names the live project, names another
\* project, or is empty
IdentityInstallations ==
    { Installation(1, TRUE, TRUE),
      [Installation(1, TRUE, TRUE) EXCEPT !.title = OtherTitle],
      Installation(1, TRUE, FALSE) }

\* mirrors with or without a unique key on the field values, empty or with a
\* row from the time the values were taken from the logs
FieldInstallations ==
    {[Installation(1, TRUE, TRUE) EXCEPT !.field_key = key, !.legacy = legacy] :
        key \in BOOLEAN, legacy \in BOOLEAN}

\* the export of a form at one event, and at two events of a record
EventResponses(key) ==
    IF key[2] = FormA
    THEN { Response(TRUE, <<RowA(key[1], "x", "2", "0")>>),
           Response(TRUE, <<RowA(key[1], "x", "2", "0"), RowA(key[1], "y", "4", "2")>>) }
    ELSE { Response(TRUE, <<RowR(key[1], 1, "1", "2")>>) }

EventExports ==
    {[k \in Keys |-> [known |-> TRUE, response |-> f[k]]] :
        f \in {g \in [Keys -> UNION {EventResponses(k) : k \in Keys}] :
                 \A k \in Keys : g[k] \in EventResponses(k)}}

(***************************************************************************)
(* Detail strings as the service composes them: an optional [instance = N]  *)
(* token, then pairs var = 'value', joined by ", "                          *)
(***************************************************************************)
DigitChar(d) ==
    CASE d = 0 -> "0" [] d = 1 -> "1" [] d = 2 -> "2" [] d = 3 -> "3"
      [] d = 4 -> "4" [] d = 5 -> "5" [] d = 6 -> "6" [] d = 7 -> "7"
      [] d = 8 -> "8" [] d = 9 -> "9"

RECURSIVE DecimalText(_)
DecimalText(n) ==
    IF n < 10 THEN <<DigitChar(n)>>
    ELSE Bind(DecimalText(n \div 10), LAMBDA front : Append(front, DigitChar(n % 10)))

RECURSIVE JoinPairs(_)
JoinPairs(pairs) ==
    IF pairs = <<>> THEN <<>>
    ELSE IF Len(pairs) = 1 THEN pairs[1].variable \o Eq \o Quoted(pairs[1].value)
    ELSE Bind(JoinPairs(Tail(pairs)), LAMBDA rest :
           pairs[1].variable \o Eq \o Quoted(pairs[1].value) \o Sep \o rest)

DetailString(input) ==
    IF ~input.instance.some THEN JoinPairs(input.pairs)
    ELSE IF input.pairs = <<>> THEN InstanceToken(DecimalText(input.instance.n))
    ELSE InstanceToken(DecimalText(input.instance.n)) \o Sep \o JoinPairs(input.pairs)

\* values are made of letters and of the separator itself
ValueParts == {<<"x">>, Sep}

RECURSIVE ValuesUpTo(_)
ValuesUpTo(n) ==
    IF n = 0 THEN {<<>>}
    ELSE Bind(ValuesUpTo(n - 1), LAMBDA shorter :
           shorter \cup {v \o p : v \in shorter, p \in ValueParts})

InstanceNumbers == {1, 12}

DetailInputs ==
    [instance : {NoInstance} \cup {SomeInstance(n) : n \in InstanceNumbers},
     pairs : UNION {[1..n -> [variable : {FieldA, FieldR},
                              value : ValuesUpTo(MaxValueParts)]] : n \in 0..MaxPairs}]

NoDetails == [instance |-> NoInstance, pairs |-> <<>>]

\* ways in which a detail string departs from the shape above
Damages ==
    {"bracket_first", "bracket_last", "token_first", "token_last", "char_last",
     "separator", "trailing"}

RECURSIVE JoinPairsWith(_, _)
JoinPairsWith(pairs, sep) ==
    IF pairs = <<>> THEN <<>>
    ELSE IF Len(pairs) = 1 THEN pairs[1].variable \o Eq \o Quoted(pairs[1].value)
    ELSE Bind(JoinPairsWith(Tail(pairs), sep), LAMBDA rest :
           pairs[1].variable \o Eq \o Quoted(pairs[1].value) \o sep \o rest)

\* the string of the pairs with one departure: a token in brackets that is no
\* [instance = N], a token without " = ", "; " between the pairs, or
\* characters behind the last value
DamagedString(input) ==
    Bind(DetailString([instance |-> input.instance, pairs |-> input.pairs]),
      LAMBDA good :
        CASE input.damage = "bracket_first" -> <<"[", "x", "]">> \o Sep \o good
          [] input.damage = "bracket_last" -> good \o Sep \o <<"[", "x", "]">>
          [] input.damage = "token_first" -> <<"b", "b">> \o Sep \o good
          [] input.damage = "token_last" -> good \o Sep \o <<"b", "b">>
          [] input.damage = "char_last" -> good \o Sep \o <<"b">>
          [] input.damage = "separator" -> JoinPairsWith(input.pairs, <<";", " ">>)
          [] input.damage = "trailing" -> good \o <<"z", "z">>)

DamagedInputs ==
    {[instance |-> i.instance, pairs |-> i.pairs, damage |-> d] :
        i \in {j \in DetailInputs : j.pairs # <<>>}, d \in Damages \ {"separator"}}
    \cup
    {[instance |-> i.instance, pairs |-> i.pairs, damage |-> "separator"] :
        i \in {j \in DetailInputs : ~j.instance.some /\ Len(j.pairs) >= 2}}

(***************************************************************************)
(* Any string as details: composed ones, damaged ones, every short string  *)
(* over the characters the parser looks at, and values with quotes         *)
(***************************************************************************)
MaxText == 3

ScanAlphabet == {"a", " ", "=", "'", ",", "["}

RECURSIVE TextsUpTo(_)
TextsUpTo(n) ==
    IF n = 0 THEN {<<>>}
    ELSE Bind(TextsUpTo(n - 1), LAMBDA shorter :
           shorter \cup {Append(t, c) : t \in shorter, c \in ScanAlphabet})

\* what may stand behind "a = '": quotes, commas and the end of the string
\* in every arrangement
QuoteTails == {FieldA \o Eq \o <<"'">> \o t : t \in TextsUpTo(MaxText)}

ScanTexts ==
    {DetailString(i) : i \in DetailInputs}
    \cup {DamagedString(i) : i \in DamagedInputs}
    \cup TextsUpTo(MaxText) \cup QuoteTails
    \cup {InstancePrefix, InstancePrefix \o <<"]">>, InstancePrefix \o <<"1">>,
          InstanceToken(<<"1">>) \o <<",">>, InstanceToken(<<"1">>) \o Sep}

(***************************************************************************)
(* Field metadata and changed variables for get_crf_name                   *)
(***************************************************************************)
\* project.metadata with the field of form R ahead of the fields of form A:
\* behind record_id, which the map leaves out, or at the very front
MetadataOrders ==
    { Metadata,
      << Metadata[1], Metadata[4], Metadata[2], Metadata[3] >>,
      << Metadata[4], Metadata[1], Metadata[2], Metadata[3] >> }

Option(field, text) == field \o <<"(">> \o text \o <<")">>

\* names a log may give: fields, fields with an option in parentheses, the
\* synthetic _complete field, and names that only begin like a field
ResolverVariables ==
    { FieldA, FieldR, Option(FieldR, <<"1">>), Option(FieldA, <<"1", ".", "2">>),
      FormR \o CompleteSuffix, FieldA \o FieldA, FieldR \o <<"(", "1">>,
      Option(FieldA, <<"1">>) \o <<"x">>, <<"z">>, RecordId }

MaxVariables == 2

ResolverInputs ==
    [instance : {NoInstance, SomeInstance(1)},
     pairs : UNION {[1..n -> [variable : ResolverVariables, value : {<<"x">>}]] :
                      n \in 0..MaxVariables},
     metadata : MetadataOrders]

(***************************************************************************)
(* The REDCapLog objects of the catalogue, computed once                   *)
(***************************************************************************)
instru_field_map == get_project_instru_field_map(Metadata)

\* REDCapLog(project, action, timestamp, details) and what the loop reads of it
REDCapLog(action, details) ==
    LET error == ConstructError(action, details)
        details_dict == extract_details(details).dict
    IN IF error # "none"
       THEN [raised |-> TRUE, patient_name |-> <<>>, action |-> <<>>, details |-> <<>>,
             variables |-> <<>>, operation |-> "None", instance |-> NoInstance,
             crf_name |-> <<>>]
       ELSE [raised |-> FALSE,
             patient_name |-> patient_name_of(action),
             action |-> action_head(action),
             details |-> details_dict,
             variables |-> DictKeys(details_dict),
             operation |-> get_action(action_head(action)),
             instance |-> get_instance(details_dict),
             crf_name |-> get_crf_name(details_dict, instru_field_map)]

\* the catalogue's texts, each with the object made of it
LogObjects ==
    {[action |-> k.action, details |-> k.details,
      object |-> REDCapLog(k.action, k.details)] : k \in LogKinds}

ObjectOf(log) ==
    (CHOOSE o \in LogObjects : o.action = log.action /\ o.details = log.details).object

(***************************************************************************)
(* REDCapLog of AMBRA_Backups_dans: arm and event of a log                 *)
(***************************************************************************)
Uppers == <<"A", "B", "C", "D", "E", "F", "G", "H", "I", "J", "K", "L", "M",
            "N", "O", "P", "Q", "R", "S", "T", "U", "V", "W", "X", "Y", "Z">>

Lowers == <<"a", "b", "c", "d", "e", "f", "g", "h", "i", "j", "k", "l", "m",
            "n", "o", "p", "q", "r", "s", "t", "u", "v", "w", "x", "y", "z">>

\* str.lower()
Lower(s) ==
    [i \in 1..Len(s) |->
        IF \E k \in 1..26 : Uppers[k] = s[i]
        THEN Lowers[CHOOSE k \in 1..26 : Uppers[k] = s[i]]
        ELSE s[i]]

\* None and a string, for arm_name and event_name
NoName == [some |-> FALSE, s |-> <<>>]

SomeName(s) == [some |-> TRUE, s |-> s]

ArmOpen == <<"(", "A", "r", "m", " ">>

\* the position after the text up to the next c, or the end of s
RunUntil(s, i, c) ==
    LET hits == {j \in i..(Len(s) - 1) : At(s, j) = c}
    IN IF hits = {} THEN Len(s) ELSE CHOOSE j \in hits : \A o \in hits : j <= o

\* re.search(r'\(Arm (\d+): ([^)]+)\)', action): starts of a match
ArmPatternAt(action) ==
    {p \in 0..(Len(action) - 1) :
        /\ Slice(action, p, p + 5) = ArmOpen
        /\ DigitRunEnd(action, p + 5) > p + 5
        /\ Slice(action, DigitRunEnd(action, p + 5),
                 DigitRunEnd(action, p + 5) + 2) = <<":", " ">>
        /\ RunUntil(action, DigitRunEnd(action, p + 5) + 2, ")")
              > DigitRunEnd(action, p + 5) + 2
        /\ RunUntil(action, DigitRunEnd(action, p + 5) + 2, ")") < Len(action)}

ArmText(arm_num) == <<"A", "r", "m", " ">> \o DecimalText(arm_num)

\* REDCapLog._parse_arm_from_action
parse_arm_from_action(action, arms) ==
    LET found == ArmPatternAt(action)
        p == CHOOSE q \in found : \A o \in found : q <= o
        named == {k \in 1..Len(arms) : Contains(action, ArmText(arms[k].arm_num))}
    IN IF found # {}
       THEN Slice(action, DigitRunEnd(action, p + 5) + 2,
                  RunUntil(action, DigitRunEnd(action, p + 5) + 2, ")"))
       ELSE IF named # {}
       THEN arms[CHOOSE k \in named : \A o \in named : k <= o].name
       ELSE arms[1].name

\* re.search(r'\(([^(]+) \(Arm \d+:', action): starts of a match; the text in
\* the group ends one blank before the next "("
EventPatternAt(action) ==
    {p \in 0..(Len(action) - 1) :
        /\ At(action, p) = "("
        /\ LET q == RunUntil(action, p + 1, "(")
           IN /\ q < Len(action)
              /\ q - 1 > p + 1
              /\ At(action, q - 1) = " "
              /\ Slice(action, q, q + 5) = ArmOpen
              /\ DigitRunEnd(action, q + 5) > q + 5
              /\ DigitRunEnd(action, q + 5) < Len(action)
              /\ At(action, DigitRunEnd(action, q + 5)) = ":"}

\* REDCapLog._parse_event_from_action
parse_event_from_action(action, events) ==
    LET found == EventPatternAt(action)
        p == CHOOSE q \in found : \A o \in found : q <= o
        named == {k \in 1..Len(events) : Contains(action, events[k].event_name)}
    IN IF found # {}
       THEN StripSpaces(Slice(action, p + 1, RunUntil(action, p + 1, "(") - 1))
       ELSE IF named # {}
       THEN events[CHOOSE k \in named : \A o \in named : k <= o].event_name
       ELSE events[1].event_name

Names(arm_name, event_name) == [arm_name |-> arm_name, event_name |-> event_name]

\* REDCapLog._parse_arm_event_info: self.arm_name and self.event_name; an
\* exception on the way (no arms, no events) leaves both None
parse_arm_event_info(project, action) ==
    IF project.is_longitudinal = 0 \/ Len(project.arms) = 0
    THEN Names(NoName, NoName)
    ELSE IF Contains(Lower(action), <<"d", "e", "l", "e", "t", "e">>)
    THEN Names(SomeName(IF Len(project.arms) > 1
                        THEN parse_arm_from_action(action, project.arms)
                        ELSE project.arms[1].name), NoName)
    ELSE IF Len(project.events) = 0 THEN Names(NoName, NoName)
    ELSE Names(SomeName(IF Len(project.arms) > 1
                        THEN parse_arm_from_action(action, project.arms)
                        ELSE project.arms[1].name),
               SomeName(IF Len(project.events) > 1
                        THEN parse_event_from_action(action, project.events)
                        ELSE project.events[1].event_name))

\* the arms and events a project may define; event names are free text
Arm(arm_num, name) == [arm_num |-> arm_num, name |-> name]

ArmCatalogue == <<Arm(1, <<"x">>), Arm(2, <<"y">>), Arm(3, <<"z">>)>>

Event(event_name) == [event_name |-> event_name]

EventV1 == <<"v", "1">>

EventV2 == <<"v", "2">>

EventDeleted == <<"d", "e", "l", "e", "t", "e", "d">>

Projects ==
    [is_longitudinal : {0, 1},
     arms : {<<ArmCatalogue[1]>>, <<ArmCatalogue[1], ArmCatalogue[2]>>},
     events : {<<Event(EventV1)>>, <<Event(EventV1), Event(EventV2)>>,
               <<Event(EventV1), Event(EventDeleted)>>}]

\* how an action text names arm and event: not at all, the arm clause, the
\* event in front of the arm clause, or the bare names
Shapes == {"none", "arm", "event_arm", "names"}

ArmEventInputs ==
    [project : Projects, verb : {CreateRecord, UpdateRecord, DeleteRecord},
     shape : Shapes, event : {EventV1, EventV2, EventDeleted}, arm : 1..3]

ArmClauseOf(arm) ==
    ArmOpen \o DecimalText(arm.arm_num) \o <<":", " ">> \o arm.name \o <<")">>

ActionText(input) ==
    input.verb \o <<" ">> \o Patient1 \o
    CASE input.shape = "none" -> <<>>
      [] input.shape = "arm" -> <<" ">> \o ArmClauseOf(ArmCatalogue[input.arm])
      [] input.shape = "event_arm" ->
            <<" ", "(">> \o input.event \o <<" ">>
               \o ArmClauseOf(ArmCatalogue[input.arm]) \o <<")">>
      [] input.shape = "names" ->
            <<" ">> \o input.event \o <<" ">> \o ArmText(input.arm)

(***************************************************************************)
(* One pass of the loop of project_data_to_db over record_logs              *)
(***************************************************************************)
\* SELECT id FROM patients WHERE patient_name = %s
SelectPatient(db, patient_name) ==
    {k \in 1..Len(db.patients) : db.patients[k] = patient_name}

Least(S) == CHOOSE k \in S : \A j \in S : k <= j

\* the lookup written with instance = NULL for a log without instance, which
\* no row satisfies
SelectCrfRowEq(db, patient_id, crf_name, instance) ==
    {k \in 1..Len(db.CRF_RedCap) :
        /\ instance.some
        /\ db.CRF_RedCap[k].id_patient = patient_id
        /\ db.CRF_RedCap[k].crf_name = crf_name
        /\ db.CRF_RedCap[k].instance = instance
        /\ db.CRF_RedCap[k].deleted = 0}

\* SELECT * FROM CRF_RedCap WHERE id_patient = .. AND crf_name = .. AND
\* instance (IS NULL | = ..) AND deleted = '0'
SelectCrfRow(db, patient_id, crf_name, instance) ==
    {k \in 1..Len(db.CRF_RedCap) :
        /\ db.CRF_RedCap[k].id_patient = patient_id
        /\ db.CRF_RedCap[k].crf_name = crf_name
        /\ db.CRF_RedCap[k].instance = instance
        /\ db.CRF_RedCap[k].deleted = 0}

\* DELETE FROM CRF_RedCap WHERE id_patient = %s
DropPatientRows(db, patient_id) ==
    [db EXCEPT !.CRF_RedCap = SelectSeq(@, LAMBDA row : row.id_patient # patient_id)]

\* UPDATE CRF_RedCap SET deleted = 1 WHERE id_patient = %s
DeletePatientRows(db, patient_id) ==
    [db EXCEPT !.CRF_RedCap =
        [k \in 1..Len(@) |->
            IF @[k].id_patient = patient_id THEN [@[k] EXCEPT !.deleted = 1] ELSE @[k]]]

\* a log without [instance] on a repeating form is left without an instance
KeepInstance(instance, crf_name, repeating_instru) == instance

\* if (instance is None) and (crf_name in repeating_instru): instance = 1
DefaultInstance(instance, crf_name, repeating_instru) ==
    IF ~instance.some /\ crf_name \in repeating_instru THEN SomeInstance(1) ELSE instance

NoCrf == <<>>

\* the row is taken out of CRF_RedCap
RemoveRow(db, crf_row) ==
    [db EXCEPT !.CRF_RedCap =
        SubSeq(@, 1, Least(crf_row) - 1) \o SubSeq(@, Least(crf_row) + 1, Len(@))]

\* UPDATE CRF_RedCap SET deleted = 1 WHERE id = crf_row["id"].iloc[0]
MarkDeleted(db, crf_row) == [db EXCEPT !.CRF_RedCap[Least(crf_row)].deleted = 1]

Pass(db, outcome, crf_name, instance, used, record_df) ==
    [db |-> db, outcome |-> outcome, crf_name |-> crf_name, instance |-> instance,
     used |-> used, record_df |-> record_df]

\* the branches on record_df and crf_row (source lines 714-829)
Reconcile(db, log, patient_id, crf_name, instance, response) ==
    Bind(export_records_wrapper(db, ObjectOf(log).patient_name, log.timestamp,
                                response, crf_name, instance), LAMBDA w :
    Bind(Melt(w.form_df), LAMBDA record_df :
    Bind(SelectCrfRow(db, patient_id, crf_name, instance), LAMBDA crf_row :
    Bind(<<[role |-> "lookup", instance |-> instance],
           [role |-> "fetch", instance |-> instance]>>, LAMBDA looked :
       IF w.raised THEN Pass(w.db, "fatal", crf_name, instance, looked, <<>>)
       ELSE IF w.form_df = <<>> /\ crf_row = {}
       THEN Pass(w.db, "absent", crf_name, instance, looked, <<>>)
       ELSE IF w.form_df = <<>>
       THEN Pass(MarkDeleted(w.db, crf_row),
                 "soft_deleted", crf_name, instance, looked, <<>>)
       ELSE IF crf_row # {}
       THEN Bind(Least(crf_row), LAMBDA crf_id :
            Bind({w.db.CRF_Data_RedCap[k].redcap_variable :
                    k \in {j \in 1..Len(w.db.CRF_Data_RedCap) :
                              w.db.CRF_Data_RedCap[j].id_crf = crf_id}},
              LAMBDA db_vars :
              Bind(UpsertData(w.db.CRF_Data_RedCap, record_df, 1, crf_id, db_vars,
                              w.db.field_key), LAMBDA upsert :
                 Pass([w.db EXCEPT
                       !.CRF_RedCap[crf_id].verified =
                            verified_on_update(@, record_df, crf_name),
                       !.CRF_Data_RedCap = upsert.data],
                    IF upsert.raised THEN "fatal" ELSE "updated",
                    crf_name, instance, looked, record_df))))
       ELSE Bind(Len(w.db.CRF_RedCap) + 1, LAMBDA crf_id :
                 Pass([w.db EXCEPT
                       !.CRF_RedCap = Append(@,
                            [id_patient |-> patient_id, crf_name |-> crf_name,
                             instance |-> instance, deleted |-> 0,
                             verified |-> verified_on_insert(record_df, crf_name)]),
                       !.CRF_Data_RedCap = df_to_db_table(@, record_df, 1, crf_id,
                                                          w.db.field_key)],
                    "created", crf_name, instance,
                    Append(looked, [role |-> "create", instance |-> instance]),
                    record_df))))))

\* a loop that stops at the first log it cannot place
UnplacedRaises(db, instance) == Pass(db, "fatal", NoCrf, instance, <<>>, <<>>)

\* if not crf_name: failed_to_add.append(log_instance); continue
Unplaced(db, instance) == Pass(db, "unresolved", NoCrf, instance, <<>>, <<>>)

\* whether the pass for this log reaches export_records_wrapper, and for which
\* form of which record
ReachesExport(log) ==
    /\ log.details # <<>>
    /\ ~ObjectOf(log).raised
    /\ ObjectOf(log).operation # "DELETE"
    /\ ObjectOf(log).crf_name # NoCrf

ExportKey(log) == <<ObjectOf(log).patient_name, ObjectOf(log).crf_name>>

\* the body of the for loop for one log (source lines 672-829)
ProcessLog(db, log, repeating_instru, response) ==
    IF log.details = <<>>
    THEN Pass(db, "skipped", NoCrf, NoInstance, <<>>, <<>>)
    ELSE IF ObjectOf(log).raised
    THEN Pass(db, "fatal", NoCrf, NoInstance, <<>>, <<>>)
    ELSE Bind(ObjectOf(log), LAMBDA log_instance :
         Bind(SelectPatient(db, log_instance.patient_name), LAMBDA found :
         Bind(IF found = {}
              THEN [db EXCEPT !.patients = Append(@, log_instance.patient_name)]
              ELSE db, LAMBDA db1 :
         Bind(IF found = {} THEN Len(db.patients) + 1 ELSE Least(found),
           LAMBDA patient_id :
            IF log_instance.operation = "DELETE"
            THEN Pass(DeletePatientRows(db1, patient_id), "deleted",
                      NoCrf, NoInstance, <<>>, <<>>)
            ELSE IF log_instance.crf_name = NoCrf
            THEN Unplaced(db1, log_instance.instance)
            ELSE Bind(DefaultInstance(log_instance.instance, log_instance.crf_name,
                                      repeating_instru), LAMBDA instance :
                   Reconcile(db1, log, patient_id, log_instance.crf_name, instance,
                             response))))))

\* a run that records no event for the logs it could not place
PublishNothing(db, failed_to_add) == [db |-> db, raised |-> FALSE]

RECURSIVE PublishFailed(_, _)
\* the loop over failed_to_add: one WARNING per log, stopping when log_to_db raises
PublishFailed(db, failed_to_add) ==
    IF failed_to_add = <<>> THEN [db |-> db, raised |-> FALSE]
    ELSE Bind(log_to_db(db, ObjectOf(failed_to_add[1]).patient_name,
                        failed_to_add[1].timestamp, "WARNING",
                        "no form for variables"), LAMBDA w :
           IF w.raised THEN w
           ELSE Bind(Tail(failed_to_add), LAMBDA rest : PublishFailed(w.db, rest)))

\* UPDATE backup_info_RedCap SET last_backup = now WHERE project_name = title
UpdateBackupInfo(backup_info, project_name, now) ==
    [k \in 1..Len(backup_info) |->
        IF backup_info[k].project_name = project_name
        THEN [backup_info[k] EXCEPT !.last_backup = now]
        ELSE backup_info[k]]

\* a run that writes the checkpoint whether or not it raised
checkpoint_always(backup_info, project_name, now, raised) ==
    UpdateBackupInfo(backup_info, project_name, now)

\* backup_info_RedCap as a run leaves it: the UPDATE is the last statement, so
\* an exception anywhere before it leaves the table as it was
checkpoint_after(backup_info, project_name, now, raised) ==
    IF raised THEN backup_info ELSE UpdateBackupInfo(backup_info, project_name, now)

\* check_project_name: inserts the title into an empty backup_info_RedCap,
\* raises ValueError when the table's only row, or none of its rows, has the
\* live title
check_project_name(backup_info, project_name) ==
    IF Len(backup_info) = 0
    THEN [raised |-> FALSE,
          backup_info |-> <<[project_name |-> project_name, last_backup |-> Epoch]>>]
    ELSE IF \E k \in 1..Len(backup_info) : backup_info[k].project_name = project_name
    THEN [raised |-> FALSE, backup_info |-> backup_info]
    ELSE [raised |-> TRUE, backup_info |-> backup_info]

(***************************************************************************)
(* State                                                                   *)
(***************************************************************************)
VARIABLES
    has_repeating,  \* project info has_repeating_instruments_or_events
    logging,        \* the service's record logs, as written
    records,        \* per (record, form): the service's current export, or not
                    \* yet determined since the data last changed
    clock,          \* datetime.now()
    db,             \* the mirror database
    pc,             \* "idle", "loop", "done" or "failed"
    record_logs,    \* the window grab_logs returned to the current run
    idx,            \* position of the loop in record_logs
    failed_to_add,  \* logs without a form, of the current run
    window,         \* begin and end of the fetched window, backup_info at start,
                    \* the three streams as the service delivered them, and
                    \* the entries delivered to this and the earlier runs
    trace,          \* per processed log of the run: outcome, form, instance, frame,
                    \* the service's export, the mirror before and after
    runs,           \* runs started
    first_run,      \* window and mirror of the previous complete run
    stable,         \* the service's data is as it was when the first run started
    details_in,     \* what the detail string given to the parser is composed of
    parsed          \* what extract_details made of it

vars == <<has_repeating, logging, records, clock, db, pc, record_logs, idx,
          failed_to_add, window, trace, runs, first_run, stable, details_in, parsed>>

parser_vars == <<details_in, parsed>>

Unknown == [known |-> FALSE, response |-> Response(FALSE, <<>>)]

Known(response) == [known |-> TRUE, response |-> response]

Mirror(d) ==
    [patients |-> d.patients, CRF_RedCap |-> d.CRF_RedCap,
     CRF_Data_RedCap |-> d.CRF_Data_RedCap]

NoRun == [valid |-> FALSE, logs |-> <<>>,
          mirror |-> [patients |-> <<>>, CRF_RedCap |-> <<>>, CRF_Data_RedCap |-> <<>>]]

NotParsed == [done |-> FALSE, result |-> Returned(<<>>)]

\* the mirror before the first run: empty, or holding a CRF row whose field
\* values were taken from logs alone, so that only the fields that were filled
\* out are there (comment at source lines 793-797)
StartMirror(inst) ==
    [patients |-> IF inst.legacy THEN <<Patient1>> ELSE <<>>,
     CRF_RedCap |-> IF inst.legacy
                    THEN <<[id_patient |-> 1, crf_name |-> FormA,
                            instance |-> NoInstance, deleted |-> 0, verified |-> 0]>>
                    ELSE <<>>,
     CRF_Data_RedCap |-> IF inst.legacy
                         THEN <<[id_crf |-> 1, value |-> "x", redcap_variable |-> FieldA]>>
                         ELSE <<>>,
     backup_info_RedCap |->
         IF inst.backup
         THEN <<[project_name |-> inst.title, last_backup |-> Epoch]>>
         ELSE <<>>,
     airflow_logs |-> <<>>,
     has_airflow_logs |-> inst.airflow,
     field_key |-> inst.field_key]

EngineStart(inst, exports) ==
    /\ has_repeating = inst.repeating
    /\ db = StartMirror(inst)
    /\ logging = <<>>
    /\ records = exports
    /\ clock = 1
    /\ pc = "idle"
    /\ record_logs = <<>>
    /\ idx = 1
    /\ failed_to_add = <<>>
    /\ window = [start_date |-> NoDate, begin |-> Epoch, end |-> Epoch,
                 backup_info |-> db.backup_info_RedCap,
                 delivered |-> <<<<>>, <<>>, <<>>>>, fetched |-> {}]
    /\ trace = <<>>
    /\ runs = 0
    /\ first_run = NoRun
    /\ stable = TRUE

EngineInit(inst) == EngineStart(inst, [k \in Keys |-> Unknown])

Init ==
    /\ \E inst \in Installations : EngineInit(inst)
    /\ details_in = NoDetails
    /\ parsed = NotParsed

(***************************************************************************)
(* The service and the clock                                               *)
(***************************************************************************)
Tick ==
    /\ clock < MaxTime
    /\ clock' = clock + 1
    /\ UNCHANGED <<has_repeating, logging, records, db, pc, record_logs, idx,
                   failed_to_add, window, trace, runs, first_run, stable, parser_vars>>

\* a user creates, edits or deletes a record: the service writes one log
WriteLog ==
    /\ Len(logging) < MaxLogs
    /\ \E k \in LogKinds :
          logging' = Append(logging, [action |-> k.action, timestamp |-> clock,
                                      details |-> k.details, log_type |-> k.log_type])
    /\ UNCHANGED <<has_repeating, records, clock, db, pc, record_logs, idx,
                   failed_to_add, window, trace, runs, first_run, stable, parser_vars>>

\* the data of a record's form changes at the service
ServiceEdit ==
    /\ \E k \in Keys :
          /\ records[k].known
          /\ records' = [records EXCEPT ![k] = Unknown]
    /\ stable' = FALSE
    /\ UNCHANGED <<has_repeating, logging, clock, db, pc, record_logs, idx,
                   failed_to_add, window, trace, runs, first_run, parser_vars>>

(***************************************************************************)
(* project_data_to_db                                                      *)
(***************************************************************************)
repeating_instru == get_repeating_instru(has_repeating, instru_field_map)

\* the log entries of a list
EntriesOf(logs) == {logs[i] : i \in 1..Len(logs)}

\* lines 660-668: the maps, grab_logs, failed_to_add = []
Fetch(start_date, end_date) ==
    \E begin \in {start_of_window(db.backup_info_RedCap, start_date)},
       end \in {end_of_window(clock, end_date)} :
       /\ \E log_add \in Orders(export_logging(logging, begin, end, "record_add")),
             log_edit \in Orders(export_logging(logging, begin, end, "record_edit")),
             log_delete \in Orders(export_logging(logging, begin, end, "record_delete")) :
                /\ record_logs' = MergeStreams(log_add, log_delete, log_edit)
                /\ window' = [start_date |-> start_date, begin |-> begin,
                              end |-> end, backup_info |-> db.backup_info_RedCap,
                              delivered |-> <<log_add, log_delete, log_edit>>,
                              fetched |-> window.fetched
                                  \cup EntriesOf(log_add \o log_delete \o log_edit)]
       /\ pc' = "loop"
       /\ idx' = 1
       /\ failed_to_add' = <<>>
       /\ trace' = <<>>
       /\ runs' = runs + 1

\* project_data_to_db(db, project, start_date, end_date) is called
Begin ==
    /\ pc = "idle"
    /\ \E start_date \in {NoDate, Epoch}, end_date \in {NoDate, 1} :
          Fetch(start_date, end_date)
    /\ first_run' = NoRun
    /\ stable' = TRUE
    /\ UNCHANGED <<has_repeating, logging, records, clock, db, parser_vars>>

\* after a complete run, project_data_to_db is called again for the same window
Replay ==
    /\ pc = "done"
    /\ runs < MaxRuns
    /\ Fetch(window.begin, window.end)
    /\ first_run' = [valid |-> stable, logs |-> record_logs, mirror |-> Mirror(db)]
    /\ UNCHANGED <<has_repeating, logging, records, clock, db, stable, parser_vars>>

\* what the pass leaves behind, given the service's export for the log's form
Apply(log, response) ==
    \E pass \in {ProcessLog(db, log, repeating_instru, response)} :
       /\ db' = [pass.db EXCEPT !.backup_info_RedCap =
                    checkpoint_after(@, ProjectTitle, clock, TRUE)]
       /\ trace' = Append(trace, [outcome |-> pass.outcome, crf_name |-> pass.crf_name,
                                  instance |-> pass.instance, used |-> pass.used,
                                  record_df |-> pass.record_df,
                                  response |-> response,
                                  before |-> Mirror(db), after |-> Mirror(pass.db)])
       /\ failed_to_add' = IF pass.outcome = "unresolved"
                           THEN Append(failed_to_add, log) ELSE failed_to_add
       /\ pc' = IF pass.outcome = "fatal" THEN "failed" ELSE "loop"
       /\ idx' = IF pass.outcome = "fatal" THEN idx ELSE idx + 1

\* lines 669-829: the body of the loop for record_logs[idx]
Entry ==
    /\ pc = "loop"
    /\ idx <= Len(record_logs)
    /\ \E log \in {record_logs[idx]} :
          IF ReachesExport(log)
          THEN \E key \in {ExportKey(log)} :
                  \E response \in (IF records[key].known THEN {records[key].response}
                                   ELSE Responses(key, has_repeating)) :
                     /\ records' = [records EXCEPT ![key] = Known(response)]
                     /\ Apply(log, response)
          ELSE /\ records' = records
               /\ Apply(log, Response(FALSE, <<>>))
    /\ UNCHANGED <<has_repeating, logging, clock, record_logs, window, runs, first_run,
                   stable, parser_vars>>

\* a query of the loop raises (connection lost, missing table): the run ends
StorageError ==
    /\ pc = "loop"
    /\ idx <= Len(record_logs)
    /\ pc' = "failed"
    /\ db' = [db EXCEPT !.backup_info_RedCap =
                 checkpoint_after(@, ProjectTitle, clock, TRUE)]
    /\ UNCHANGED <<has_repeating, logging, records, clock, record_logs, idx,
                   failed_to_add, window, trace, runs, first_run, stable, parser_vars>>

\* lines 831-869: the warnings for failed_to_add, then the checkpoint
Finish ==
    /\ pc = "loop"
    /\ idx > Len(record_logs)
    /\ \E w \in {PublishFailed(db, failed_to_add)} :
          /\ db' = [w.db EXCEPT !.backup_info_RedCap =
                       checkpoint_after(@, ProjectTitle, clock, w.raised)]
          /\ pc' = IF w.raised THEN "failed" ELSE "done"
    /\ UNCHANGED <<has_repeating, logging, records, clock, record_logs, idx,
                   failed_to_add, window, trace, runs, first_run, stable, parser_vars>>

Next == Tick \/ WriteLog \/ ServiceEdit \/ Begin \/ Entry \/ StorageError \/ Finish

Spec == Init /\ [][Next]_vars

\* the scheduled call: project_data_to_db(db, project), or with an end_date,
\* first on the installed mirror and then after every run that ended without
\* an error; start_date is left to the stored checkpoint
Scheduled ==
    /\ pc \in {"idle", "done"}
    /\ runs < MaxRuns
    /\ \E end_date \in {NoDate, 1} : Fetch(NoDate, end_date)
    /\ first_run' = NoRun
    /\ stable' = TRUE
    /\ UNCHANGED <<has_repeating, logging, records, clock, db, parser_vars>>

InitSchedule ==
    /\ EngineInit(Installation(1, TRUE, TRUE))
    /\ details_in = NoDetails
    /\ parsed = NotParsed

NextSchedule == Tick \/ WriteLog \/ Scheduled \/ Entry \/ Finish

SpecSchedule == InitSchedule /\ [][NextSchedule]_vars

\* two calls for the same window
NextReplay == WriteLog \/ Begin \/ Entry \/ Finish \/ Replay

SpecReplay == Init /\ [][NextReplay]_vars

(***************************************************************************)
(* A longitudinal project: a form may be filled at two events, and the     *)
(* export then has one row per event                                       *)
(***************************************************************************)
InitFields ==
    /\ \E inst \in FieldInstallations, exports \in EventExports :
          EngineStart(inst, exports)
    /\ details_in = NoDetails
    /\ parsed = NotParsed

NextFields == WriteLog \/ Begin \/ Entry \/ Finish

SpecFields == InitFields /\ [][NextFields]_vars

(***************************************************************************)
(* REDCapLog.extract_details on composed detail strings                    *)
(***************************************************************************)
InitParser ==
    /\ EngineInit(Installation(1, TRUE, TRUE))
    /\ details_in \in DetailInputs
    /\ parsed = NotParsed

Parse ==
    /\ ~parsed.done
    /\ parsed' = [done |-> TRUE, result |-> extract_details(DetailString(details_in))]
    /\ UNCHANGED <<has_repeating, logging, records, clock, db, pc, record_logs, idx,
                   failed_to_add, window, trace, runs, first_run, stable, details_in>>

NextParser == Parse

SpecParser == InitParser /\ [][NextParser]_vars

(***************************************************************************)
(* REDCapLog.extract_details on detail strings of another shape            *)
(***************************************************************************)
InitDamaged ==
    /\ EngineInit(Installation(1, TRUE, TRUE))
    /\ details_in \in DamagedInputs
    /\ parsed = NotParsed

ParseDamaged ==
    /\ ~parsed.done
    /\ parsed' = [done |-> TRUE, result |-> extract_details(DamagedString(details_in))]
    /\ UNCHANGED <<has_repeating, logging, records, clock, db, pc, record_logs, idx,
                   failed_to_add, window, trace, runs, first_run, stable, details_in>>

NextDamaged == ParseDamaged

SpecDamaged == InitDamaged /\ [][NextDamaged]_vars

(***************************************************************************)
(* A mirror whose backup_info_RedCap names another project                 *)
(***************************************************************************)
InitIdentity ==
    /\ \E inst \in IdentityInstallations : EngineInit(inst)
    /\ details_in = NoDetails
    /\ parsed = NotParsed

\* the caller runs check_project_name(db, project) while no run is under way
CheckName ==
    /\ pc = "idle"
    /\ \E c \in {check_project_name(db.backup_info_RedCap, ProjectTitle)} :
          /\ db' = [db EXCEPT !.backup_info_RedCap = c.backup_info]
          /\ pc' = IF c.raised THEN "failed" ELSE "idle"
    /\ UNCHANGED <<has_repeating, logging, records, clock, record_logs, idx,
                   failed_to_add, window, trace, runs, first_run, stable, parser_vars>>

NextIdentity == CheckName \/ WriteLog \/ Begin \/ Entry \/ Finish

SpecIdentity == InitIdentity /\ [][NextIdentity]_vars

(***************************************************************************)
(* utils.log_to_db called by a task while no run is under way              *)
(***************************************************************************)
\* log_to_db(db, src, level, msg) for a log of the patient
LogEventOf(level, patient_name) ==
    /\ pc = "idle"
    /\ Len(db.airflow_logs) < MaxEvents
    /\ \E w \in {log_to_db(db, patient_name, clock, level, "event")} :
          /\ db' = w.db
          /\ pc' = IF w.raised THEN "failed" ELSE "idle"
    /\ UNCHANGED <<has_repeating, logging, records, clock, record_logs, idx,
                   failed_to_add, window, trace, runs, first_run, stable, parser_vars>>

LogEvent == \E level \in Levels, patient_name \in PatientNames :
               LogEventOf(level, patient_name)

NextSink == Tick \/ LogEvent

SpecSink == Init /\ [][NextSink]_vars

(***************************************************************************)
(* REDCapLog.get_crf_name on the variables of a detail string              *)
(***************************************************************************)
InitResolver ==
    /\ EngineInit(Installation(1, TRUE, TRUE))
    /\ details_in \in ResolverInputs
    /\ parsed = [done |-> FALSE, result |-> NoCrf]

\* log_instance.get_crf_name(instru_field_map) for the log of the string
Resolve ==
    /\ ~parsed.done
    /\ parsed' = [done |-> TRUE,
                  result |-> get_crf_name(
                      extract_details(DetailString(details_in)).dict,
                      get_project_instru_field_map(details_in.metadata))]
    /\ UNCHANGED <<has_repeating, logging, records, clock, db, pc, record_logs, idx,
                   failed_to_add, window, trace, runs, first_run, stable, details_in>>

NextResolver == Resolve

SpecResolver == InitResolver /\ [][NextResolver]_vars

(***************************************************************************)
(* REDCapLog._parse_arm_event_info on composed action texts                *)
(***************************************************************************)
InitArmEvent ==
    /\ EngineInit(Installation(1, TRUE, TRUE))
    /\ details_in \in ArmEventInputs
    /\ parsed = [done |-> FALSE, result |-> Names(NoName, NoName)]

\* REDCapLog(project, action, timestamp, details) sets arm_name and event_name
ParseArmEvent ==
    /\ ~parsed.done
    /\ parsed' = [done |-> TRUE,
                  result |-> parse_arm_event_info(details_in.project,
                                                  ActionText(details_in))]
    /\ UNCHANGED <<has_repeating, logging, records, clock, db, pc, record_logs, idx,
                   failed_to_add, window, trace, runs, first_run, stable, details_in>>

NextArmEvent == ParseArmEvent

SpecArmEvent == InitArmEvent /\ [][NextArmEvent]_vars

(***************************************************************************)
(* REDCapLog.extract_details, one statement group at a time                *)
(***************************************************************************)
InitScan ==
    /\ EngineInit(Installation(1, TRUE, TRUE))
    /\ details_in \in {[text |-> t] : t \in ScanTexts}
    /\ parsed = ScanBegin(details_in.text)

ScanStep(phase, Step(_, _)) ==
    /\ parsed.phase = phase
    /\ parsed' = Step(details_in.text, parsed)
    /\ UNCHANGED <<has_repeating, logging, records, clock, db, pc, record_logs, idx,
                   failed_to_add, window, trace, runs, first_run, stable, details_in>>

Outer == ScanStep("outer", OuterStep)

Inner == ScanStep("inner", InnerStep)

Close == ScanStep("close", CloseStep)

NextScan == Outer \/ Inner \/ Close

\* the interpreter goes on with the next statement as long as there is one
SpecScan == InitScan /\ [][NextScan]_vars /\ WF_vars(NextScan)

(***************************************************************************)
(* Properties                                                              *)
(***************************************************************************)
\* positions of record_logs the loop has passed; trace[i] is what the pass for
\* record_logs[i] did
Processed == 1..Len(trace)

\* the record ID and the operation the action text of a log names
ActionsRead ==
    {[action |-> k.action, patient |-> patient_name_of(k.action),
      operation |-> get_action(action_head(k.action))] : k \in LogKinds}

PatientOf(log) == (CHOOSE a \in ActionsRead : a.action = log.action).patient

OperationOf(log) == (CHOOSE a \in ActionsRead : a.action = log.action).operation

RowsOfPatient(m, name) ==
    {r \in 1..Len(m.CRF_RedCap) : m.patients[m.CRF_RedCap[r].id_patient] = name}

ActiveRows(m, name, crf_name, instance) ==
    {r \in RowsOfPatient(m, name) :
        /\ m.CRF_RedCap[r].crf_name = crf_name
        /\ m.CRF_RedCap[r].instance = instance
        /\ m.CRF_RedCap[r].deleted = 0}

HoldsValue(m, r, row) ==
    \E k \in 1..Len(m.CRF_Data_RedCap) :
       m.CRF_Data_RedCap[k] = [id_crf |-> r, value |-> row.value,
                               redcap_variable |-> row.redcap_variable]

\* the log is constructed, is no DELETE and has a form
Placed(log) ==
    /\ log.details # <<>>
    /\ ~ObjectOf(log).raised
    /\ ObjectOf(log).operation # "DELETE"
    /\ ObjectOf(log).crf_name # NoCrf

\* the log is constructed, is no DELETE and none of its variables has a form
WithoutForm(log) ==
    /\ ~ObjectOf(log).raised
    /\ ObjectOf(log).operation # "DELETE"
    /\ ObjectOf(log).crf_name = NoCrf

WarnedAbout(log) ==
    \E k \in 1..Len(db.airflow_logs) :
       /\ db.airflow_logs[k].type = "WARNING"
       /\ db.airflow_logs[k].patient_name = PatientOf(log)
       /\ db.airflow_logs[k].timestamp = log.timestamp

\* C1: a second run over the same ordered window, the service's data being
\* what it was for the first run, ends with the mirror the first run left
Idempotence ==
    (pc = "done" /\ first_run.valid /\ stable /\ record_logs = first_run.logs)
        => Mirror(db) = first_run.mirror

\* C2: once a DELETE entry is processed, whatever its details, every CRF row
\* of its patient is marked deleted and the field values are as before
DeleteCascade ==
    \A i \in Processed :
       OperationOf(record_logs[i]) = "DELETE" =>
          /\ \A r \in RowsOfPatient(trace[i].after, PatientOf(record_logs[i])) :
                trace[i].after.CRF_RedCap[r].deleted = 1
          /\ trace[i].after.CRF_Data_RedCap = trace[i].before.CRF_Data_RedCap

VerifiedFlag ==
    \A i \in Processed :
       (/\ Placed(record_logs[i])
        /\ trace[i].record_df # <<>>
        /\ HasVariable(trace[i].record_df, trace[i].crf_name \o StatusSuffix)) =>
          \A r \in ActiveRows(trace[i].after, PatientOf(record_logs[i]),
                              trace[i].crf_name, trace[i].instance) :
             trace[i].after.CRF_RedCap[r].verified = 1
                <=> FirstValue(trace[i].record_df,
                               trace[i].crf_name \o StatusSuffix) \in {"4", "5"}

\* a CREATE at c and a later UPDATE at u on one (patient, form, instance), the
\* UPDATE with a snapshot, and nothing else of the patient at or after it
CreateThenUpdate(c, u) ==
    /\ Placed(record_logs[c])
    /\ Placed(record_logs[u])
    /\ ObjectOf(record_logs[c]).operation = "CREATE"
    /\ ObjectOf(record_logs[u]).operation = "UPDATE"
    /\ PatientOf(record_logs[c]) = PatientOf(record_logs[u])
    /\ trace[c].crf_name = trace[u].crf_name
    /\ trace[c].instance = trace[u].instance
    /\ record_logs[c].timestamp < record_logs[u].timestamp
    /\ trace[u].record_df # <<>>
    /\ \A j \in Processed \ {u} :
          PatientOf(record_logs[j]) = PatientOf(record_logs[u]) => record_logs[j].timestamp < record_logs[u].timestamp

WithoutInstance(log) == Placed(log) /\ ~ObjectOf(log).instance.some

ExpectedInstance(crf_name) ==
    IF crf_name \in repeating_instru THEN SomeInstance(1) ELSE NoInstance

\* C6: for an entry without instance, the row lookup, the fetch and the row
\* creation use instance 1 on a repeating form and no instance otherwise
DefaultInstanceUsed ==
    \A i \in Processed :
       WithoutInstance(record_logs[i]) =>
          /\ \E k \in 1..Len(trace[i].used) : trace[i].used[k].role = "lookup"
          /\ \E k \in 1..Len(trace[i].used) : trace[i].used[k].role = "fetch"
          /\ \A k \in 1..Len(trace[i].used) :
                trace[i].used[k].instance = ExpectedInstance(trace[i].crf_name)
          /\ trace[i].outcome = "created" =>
                /\ \E k \in 1..Len(trace[i].used) : trace[i].used[k].role = "create"
                /\ trace[i].after.CRF_RedCap[Len(trace[i].after.CRF_RedCap)].instance
                      = ExpectedInstance(trace[i].crf_name)

DefaultInstanceWitness ==
    \E i \in Processed :
       /\ WithoutInstance(record_logs[i])
       /\ trace[i].crf_name \in repeating_instru
       /\ trace[i].outcome = "created"

RECURSIVE PairsDict(_, _)
\* the mapping var -> 'value' of the pairs, quotes kept
PairsDict(pairs, d) ==
    IF pairs = <<>> THEN d
    ELSE Bind(DictSet(d, StrItem(pairs[1].variable, Quoted(pairs[1].value))),
           LAMBDA d2 : PairsDict(Tail(pairs), d2))

\* C7: a string of one or more pairs parses to the mapping of its pairs, every
\* value with both quotes, the last one too
RoundTrip ==
    (parsed.done /\ ~details_in.instance.some /\ details_in.pairs # <<>>)
        => parsed.result = Returned(PairsDict(details_in.pairs, <<>>))

\* C8: a leading [instance = N] is stored as the integer N under "[instance]"
\* and under no other key; get_instance returns N when the mapping has another
\* key too, and None when "[instance]" is alone or absent
InstanceExtraction ==
    parsed.done =>
       IF details_in.instance.some
       THEN /\ parsed.result.ok
            /\ DictHas(parsed.result.dict, InstanceKey)
            /\ DictGet(parsed.result.dict, InstanceKey)
                  = IntItem(InstanceKey, details_in.instance.n)
            /\ \A i \in 1..Len(parsed.result.dict) :
                  \/ parsed.result.dict[i].k = InstanceKey
                  \/ \E k \in 1..Len(details_in.pairs) :
                        details_in.pairs[k].variable = parsed.result.dict[i].k
            /\ get_instance(parsed.result.dict) =
                  IF Len(parsed.result.dict) > 1 THEN details_in.instance
                  ELSE NoInstance
       ELSE parsed.result.ok => get_instance(parsed.result.dict) = NoInstance

InstanceExtractionWitness ==
    /\ parsed.done
    /\ details_in.instance = SomeInstance(12)
    /\ details_in.pairs # <<>>
    /\ get_instance(parsed.result.dict) = SomeInstance(12)

\* C9: a run that ended with an exception left backup_info_RedCap as it found
\* it, so a run with default dates starts where this one started
CheckpointSafety ==
    pc = "failed" =>
       /\ db.backup_info_RedCap = window.backup_info
       /\ window.start_date = NoDate =>
             start_of_window(db.backup_info_RedCap, NoDate) = window.begin

CheckpointSafetyWitness ==
    /\ pc = "failed"
    /\ idx > Len(record_logs)
    /\ failed_to_add # <<>>
    /\ Len(db.backup_info_RedCap) > 0
    /\ clock > db.backup_info_RedCap[1].last_backup

LatestTimestamp(logs) ==
    CHOOSE t \in {logs[k].timestamp : k \in 1..Len(logs)} :
       \A k \in 1..Len(logs) : logs[k].timestamp <= t

\* C10: after a run without exception the checkpoint is the latest timestamp
\* of the processed logs and is not beyond the end of the window
CheckpointValue ==
    (pc = "done" /\ record_logs # <<>>) =>
       \A k \in 1..Len(db.backup_info_RedCap) :
          db.backup_info_RedCap[k].project_name = ProjectTitle =>
             /\ db.backup_info_RedCap[k].last_backup = LatestTimestamp(record_logs)
             /\ db.backup_info_RedCap[k].last_backup <= window.end

SameTriple(a, b) ==
    /\ a.id_patient = b.id_patient
    /\ a.crf_name = b.crf_name
    /\ a.instance = b.instance

\* C11: the mirror never holds two active CRF rows of one (patient, form,
\* instance), and a pass that creates a row appends one active row and leaves
\* every row that was there, the deleted ones of the same triple too, as it was
ActiveRowUniqueness ==
    /\ \A r1, r2 \in 1..Len(db.CRF_RedCap) :
          (/\ db.CRF_RedCap[r1].deleted = 0
           /\ db.CRF_RedCap[r2].deleted = 0
           /\ SameTriple(db.CRF_RedCap[r1], db.CRF_RedCap[r2])) => r1 = r2
    /\ \A i \in Processed :
          trace[i].outcome = "created" =>
             /\ Len(trace[i].after.CRF_RedCap) = Len(trace[i].before.CRF_RedCap) + 1
             /\ SubSeq(trace[i].after.CRF_RedCap, 1, Len(trace[i].before.CRF_RedCap))
                   = trace[i].before.CRF_RedCap
             /\ trace[i].after.CRF_RedCap[Len(trace[i].after.CRF_RedCap)].deleted = 0
             /\ trace[i].after.CRF_RedCap[Len(trace[i].after.CRF_RedCap)].crf_name
                   = trace[i].crf_name
             /\ trace[i].after.CRF_RedCap[Len(trace[i].after.CRF_RedCap)].instance
                   = trace[i].instance

ActiveRowUniquenessWitness ==
    \E i \in Processed :
       /\ trace[i].outcome = "created"
       /\ \E r \in 1..Len(trace[i].before.CRF_RedCap) :
             /\ trace[i].before.CRF_RedCap[r].deleted = 1
             /\ SameTriple(trace[i].before.CRF_RedCap[r],
                           trace[i].after.CRF_RedCap[Len(trace[i].after.CRF_RedCap)])

\* rows of CRF_Data_RedCap that hold the variable for CRF row r
FieldRows(m, r, variable) ==
    {j \in 1..Len(m.CRF_Data_RedCap) :
        /\ m.CRF_Data_RedCap[j].id_crf = r
        /\ m.CRF_Data_RedCap[j].redcap_variable = variable}

\* C12: the mirror never holds two field rows of one (id_crf, redcap_variable),
\* and after a pass that fetched a snapshot the addressed row has exactly one
\* field row for every variable of the snapshot, one that occurs in it more
\* than once included
FieldUniqueness ==
    /\ \A j1, j2 \in 1..Len(db.CRF_Data_RedCap) :
          (/\ db.CRF_Data_RedCap[j1].id_crf = db.CRF_Data_RedCap[j2].id_crf
           /\ db.CRF_Data_RedCap[j1].redcap_variable
                 = db.CRF_Data_RedCap[j2].redcap_variable) => j1 = j2
    /\ \A i \in Processed :
          (Placed(record_logs[i]) /\ trace[i].record_df # <<>>) =>
             \A r \in ActiveRows(trace[i].after, PatientOf(record_logs[i]),
                                 trace[i].crf_name, trace[i].instance),
                k \in 1..Len(trace[i].record_df) :
                Cardinality(FieldRows(trace[i].after, r,
                                      trace[i].record_df[k].redcap_variable)) = 1

\* C13: after a run without exception every record ID named by a log of the
\* batch, whatever the log's operation and details, has exactly one row in
\* patients, and no pass removes or changes a row of patients
PatientLifecycle ==
    /\ pc = "done" =>
          \A i \in 1..Len(record_logs) :
             Cardinality(SelectPatient(db, PatientOf(record_logs[i]))) = 1
    /\ \A i \in Processed :
          /\ Len(trace[i].before.patients) <= Len(trace[i].after.patients)
          /\ SubSeq(trace[i].after.patients, 1, Len(trace[i].before.patients))
                = trace[i].before.patients

\* the database with the three mirror tables as in m
MirrorAsDb(m) ==
    [db EXCEPT !.patients = m.patients, !.CRF_RedCap = m.CRF_RedCap,
               !.CRF_Data_RedCap = m.CRF_Data_RedCap]

RECURSIVE RunWithout(_, _, _)
\* the database after the passes for record_logs[from..to], each with the
\* export it had in the run, started on d
RunWithout(d, from, to) ==
    IF from > to THEN d
    ELSE Bind(ProcessLog(d, record_logs[from], repeating_instru,
                         trace[from].response).db, LAMBDA next :
           RunWithout(next, from + 1, to))

\* pass alt did what the run's pass act did: same outcome, form, instance and
\* frame, the same field values, and the same CRF rows for the same patient
\* names; patients differ at most by the patient named by the log left out
SamePass(alt, act, left_out) ==
    /\ alt.outcome = act.outcome
    /\ alt.crf_name = act.crf_name
    /\ alt.instance = act.instance
    /\ alt.record_df = act.record_df
    /\ alt.db.CRF_Data_RedCap = act.after.CRF_Data_RedCap
    /\ Len(alt.db.CRF_RedCap) = Len(act.after.CRF_RedCap)
    /\ \A r \in 1..Len(alt.db.CRF_RedCap) :
          /\ [alt.db.CRF_RedCap[r] EXCEPT !.id_patient = 0]
                = [act.after.CRF_RedCap[r] EXCEPT !.id_patient = 0]
          /\ alt.db.patients[alt.db.CRF_RedCap[r].id_patient]
                = act.after.patients[act.after.CRF_RedCap[r].id_patient]
    /\ {alt.db.patients[k] : k \in 1..Len(alt.db.patients)} \cup {left_out}
          = {act.after.patients[k] : k \in 1..Len(act.after.patients)}

\* every log after position i was processed as in a run without log i
LaterAsWithout(i) ==
    \A j \in Processed :
       j > i =>
          SamePass(ProcessLog(RunWithout(MirrorAsDb(trace[i].before), i + 1, j - 1),
                              record_logs[j], repeating_instru, trace[j].response),
                   trace[j], PatientOf(record_logs[i]))

ParseFailure ==
    (parsed.done /\ Len(DamagedString(details_in)) >= 2) => ~parsed.result.ok

\* the operation an action text names by the phrase it contains
NamedOperation(action) ==
    IF Contains(action, CreateRecord) THEN "CREATE"
    ELSE IF Contains(action, UpdateRecord) THEN "UPDATE"
    ELSE IF Contains(action, DeleteRecord) THEN "DELETE"
    ELSE "None"

\* C16: a constructed log is classified by the phrase its action text
\* contains, and the pass for a log whose action text contains none of the
\* three phrases ends with an exception
OperationClassification ==
    \A i \in Processed :
       record_logs[i].details # <<>> =>
          IF NamedOperation(record_logs[i].action) = "None"
          THEN trace[i].outcome = "fatal"
          ELSE ~ObjectOf(record_logs[i]).raised =>
                  ObjectOf(record_logs[i]).operation
                     = NamedOperation(record_logs[i].action)

\* backup_info_RedCap has rows and none of them names the live project
NameMismatch ==
    /\ Len(db.backup_info_RedCap) > 0
    /\ \A k \in 1..Len(db.backup_info_RedCap) :
          db.backup_info_RedCap[k].project_name # ProjectTitle

\* C17: with a mirror that names another project a run fetches no log and
\* writes no patient, CRF row, field value or checkpoint
ProjectIdentity ==
    NameMismatch =>
       /\ pc \in {"idle", "failed"}
       /\ record_logs = <<>>
       /\ Mirror(db) = Mirror(StartMirror(Installation(1, TRUE, TRUE)))
       /\ db.backup_info_RedCap = window.backup_info

\* the call left its message as the last row of airflow_logs
Stored(level, patient_name) ==
    db'.airflow_logs =
       Append(db.airflow_logs, [type |-> level, patient_name |-> patient_name,
                                timestamp |-> clock, about |-> "event"])

\* C18 as stated: every call stores its message, a call with ERROR then
\* raises, a call with INFO or WARNING returns
EventSinkAlways ==
    [][\A level \in Levels, patient_name \in PatientNames :
          LogEventOf(level, patient_name) =>
             /\ Stored(level, patient_name)
             /\ pc' = "failed" <=> level = "ERROR"]_vars

\* C18: when the airflow_logs table exists a call stores its message, then
\* raises with ERROR and returns with INFO or WARNING; when the table is
\* missing a call with any level raises and stores nothing
EventSink ==
    [][\A level \in Levels, patient_name \in PatientNames :
          LogEventOf(level, patient_name) =>
             IF db.has_airflow_logs
             THEN /\ Stored(level, patient_name)
                  /\ pc' = "failed" <=> level = "ERROR"
             ELSE /\ db' = db
                  /\ pc' = "failed"]_vars

EventSinkWitness ==
    /\ pc = "failed"
    /\ db.has_airflow_logs
    /\ Len(db.airflow_logs) > 1
    /\ db.airflow_logs[Len(db.airflow_logs)].type = "ERROR"
    /\ db.airflow_logs[1].type = "WARNING"

\* the instances of the form that the export holds with a filled _complete
LiveInstances(response, crf_name) ==
    {response.rows[k].redcap_repeat_instance :
        k \in {j \in 1..Len(response.rows) :
                  CellOf(response.rows[j], crf_name \o CompleteSuffix).value # ""}}

\* the pass fetched a snapshot for an instance that the snapshot does not
\* hold, or a snapshot without the columns of repeating instances
MissingInstanceContext(i) ==
    /\ Placed(record_logs[i])
    /\ trace[i].instance.some
    /\ trace[i].response.rows # <<>>
    /\ \/ ~trace[i].response.repeat_columns
       \/ trace[i].instance.n \notin LiveInstances(trace[i].response, trace[i].crf_name)

\* C19: such a pass records a WARNING for its log, raises nothing, and the
\* loop goes on with the next log
MissingInstanceRecoverable ==
    \A i \in Processed :
       MissingInstanceContext(i) =>
          /\ trace[i].outcome # "fatal"
          /\ idx > i
          /\ \E k \in 1..Len(db.airflow_logs) :
                /\ db.airflow_logs[k].type = "WARNING"
                /\ db.airflow_logs[k].patient_name = PatientOf(record_logs[i])
                /\ db.airflow_logs[k].timestamp = record_logs[i].timestamp

\* the WARNING events recorded for logs that could not be placed
FailedWarnings ==
    {k \in 1..Len(db.airflow_logs) :
        /\ db.airflow_logs[k].type = "WARNING"
        /\ db.airflow_logs[k].about = "no form for variables"}

\* C20: a run without exception has recorded one WARNING for all the logs it
\* could not place when there is such a log, and none when there is not; no
\* such WARNING is recorded while the loop is under way
UnresolvedPublishedOnce ==
    /\ pc = "done" =>
          Cardinality(FailedWarnings) = IF failed_to_add = <<>> THEN 0 ELSE 1
    /\ pc = "loop" => FailedWarnings = {}

\* what export_records_wrapper gave the pass for record_logs[i]
SnapshotOf(i) ==
    export_records_wrapper(MirrorAsDb(trace[i].before), PatientOf(record_logs[i]),
                           record_logs[i].timestamp, trace[i].response,
                           trace[i].crf_name, trace[i].instance)

\* the pass for record_logs[i] got an empty snapshot for its triple
EmptySnapshot(i) ==
    /\ Placed(record_logs[i])
    /\ ~SnapshotOf(i).raised
    /\ SnapshotOf(i).form_df = <<>>

\* C21: a pass with an empty snapshot adds no CRF row and writes no field
\* value; when the triple has an active row that row alone is marked deleted,
\* and when it has none the CRF rows are as before
EmptySourceOfTruth ==
    \A i \in Processed :
       EmptySnapshot(i) =>
          /\ trace[i].after.CRF_Data_RedCap = trace[i].before.CRF_Data_RedCap
          /\ LET active == ActiveRows(trace[i].before, PatientOf(record_logs[i]),
                                      ObjectOf(record_logs[i]).crf_name,
                                      trace[i].instance)
             IN IF active = {}
                THEN trace[i].after.CRF_RedCap = trace[i].before.CRF_RedCap
                ELSE \E r \in active :
                        trace[i].after.CRF_RedCap =
                           [trace[i].before.CRF_RedCap EXCEPT ![r].deleted = 1]

EmptySourceOfTruthWitness ==
    \E i \in Processed :
       /\ EmptySnapshot(i)
       /\ trace[i].outcome = "soft_deleted"
       /\ \E r \in 1..Len(trace[i].before.CRF_RedCap) :
             /\ trace[i].before.CRF_RedCap[r].verified = 1
             /\ trace[i].after.CRF_RedCap[r].deleted = 1
             /\ trace[i].before.CRF_RedCap[r].deleted = 0

\* the pass for record_logs[i] got a snapshot with data for its triple
FilledSnapshot(i) ==
    /\ Placed(record_logs[i])
    /\ ~SnapshotOf(i).raised
    /\ SnapshotOf(i).form_df # <<>>

\* the active rows of the triple of record_logs[i] in mirror m
TripleRows(m, i) ==
    ActiveRows(m, PatientOf(record_logs[i]), ObjectOf(record_logs[i]).crf_name,
               trace[i].instance)

\* CRF row r of mirror m holds the snapshot: every (variable, value) of the
\* melted frame, in one field row per variable
HoldsSnapshot(m, r, record_df) ==
    \A k \in 1..Len(record_df) :
       /\ HoldsValue(m, r, record_df[k])
       /\ Cardinality(FieldRows(m, r, record_df[k].redcap_variable)) = 1

\* C22: a pass with a filled snapshot on a triple without active row appends
\* one CRF row of the triple with deleted = 0, and that row then holds one
\* field row for every variable of the snapshot, with the snapshot's value,
\* and no other field row
CreationBranch ==
    \A i \in Processed :
       (FilledSnapshot(i) /\ TripleRows(trace[i].before, i) = {}) =>
          LET rows == trace[i].after.CRF_RedCap
              new == Len(rows)
              record_df == Melt(SnapshotOf(i).form_df)
          IN /\ new = Len(trace[i].before.CRF_RedCap) + 1
             /\ SubSeq(rows, 1, new - 1) = trace[i].before.CRF_RedCap
             /\ rows[new].deleted = 0
             /\ rows[new].crf_name = ObjectOf(record_logs[i]).crf_name
             /\ rows[new].instance = trace[i].instance
             /\ trace[i].after.patients[rows[new].id_patient]
                   = PatientOf(record_logs[i])
             /\ HoldsSnapshot(trace[i].after, new, record_df)
             /\ \A j \in 1..Len(trace[i].after.CRF_Data_RedCap) :
                   trace[i].after.CRF_Data_RedCap[j].id_crf = new =>
                      HasVariable(record_df,
                                  trace[i].after.CRF_Data_RedCap[j].redcap_variable)

\* C23: a pass with a filled snapshot on a triple with an active row adds no
\* CRF row; that row then holds the snapshot's value for every variable of the
\* snapshot, in a field row that was there or in a new one; its field rows of
\* other variables and the field rows of all other CRF rows are as before
UpdateBranch ==
    \A i \in Processed :
       (FilledSnapshot(i) /\ TripleRows(trace[i].before, i) # {}) =>
          LET record_df == Melt(SnapshotOf(i).form_df)
              old == trace[i].before.CRF_Data_RedCap
              data == trace[i].after.CRF_Data_RedCap
          IN /\ Len(trace[i].after.CRF_RedCap) = Len(trace[i].before.CRF_RedCap)
             /\ Len(data) >= Len(old)
             /\ \A r \in TripleRows(trace[i].before, i) :
                   /\ \A k \in 1..Len(record_df) :
                         /\ HoldsValue(trace[i].after, r, record_df[k])
                         /\ \A j \in FieldRows(trace[i].after, r,
                                               record_df[k].redcap_variable) :
                               data[j].value = record_df[k].value
                   /\ \A j \in 1..Len(data) :
                         IF j > Len(old)
                         THEN /\ data[j].id_crf = r
                              /\ HasVariable(record_df, data[j].redcap_variable)
                              /\ FieldRows(trace[i].before, r,
                                           data[j].redcap_variable) = {}
                         ELSE IF /\ old[j].id_crf = r
                                 /\ HasVariable(record_df, old[j].redcap_variable)
                              THEN data[j] = [old[j] EXCEPT !.value = data[j].value]
                              ELSE data[j] = old[j]

\* the entries of a sequence of logs that have the timestamp
AtTime(logs, timestamp) == SelectSeq(logs, LAMBDA l : l.timestamp = timestamp)

OfType(logs, log_type) == SelectSeq(logs, LAMBDA l : l.log_type = log_type)

\* C24: the window the loop goes through is in non-decreasing timestamp
\* order, holds what the three streams delivered, and the entries of one
\* stream that have the same timestamp are in the order of their delivery;
\* the passes follow one another in the order of the window
ProcessingOrder ==
    pc # "idle" =>
       /\ \A i, j \in 1..Len(record_logs) :
             i < j => record_logs[i].timestamp <= record_logs[j].timestamp
       /\ Len(record_logs) = Len(window.delivered[1]) + Len(window.delivered[2])
                                + Len(window.delivered[3])
       /\ \A s \in 1..3, t \in 0..MaxTime :
             AtTime(window.delivered[s], t)
                = AtTime(OfType(record_logs,
                                CASE s = 1 -> "record_add"
                                  [] s = 2 -> "record_delete"
                                  [] s = 3 -> "record_edit"), t)
       /\ Len(trace) <= Len(record_logs)
       /\ \A i \in Processed : i > 1 => trace[i].before = trace[i - 1].after

ProcessingOrderWitness ==
    /\ pc = "done"
    /\ Len(trace) = 2
    /\ Len(logging) = 2
    /\ record_logs[1].timestamp = record_logs[2].timestamp
    /\ record_logs[1].log_type = record_logs[2].log_type
    /\ record_logs[1] = logging[2]
    /\ record_logs[2] = logging[1]
    /\ record_logs[1] # record_logs[2]
    /\ window.delivered[3] = record_logs

\* texts the pattern of get_crf_name takes as an option: letters, digits and
\* at most one dot
OptionTexts == {<<>>, <<"1">>, <<"x">>, <<"1", ".", "2">>, <<".">>, <<"1", "x">>}

\* the variable is the field, or the field with an option in parentheses
NamesField(variable, field) ==
    \/ variable = field
    \/ \E text \in OptionTexts : variable = Option(field, text)

\* positions of the forms of the map that own a field named by a variable
Owners(variables, map) ==
    {m \in 1..Len(map) :
        \E f \in 1..Len(map[m].fields), v \in 1..Len(variables) :
           NamesField(variables[v], map[m].fields[f])}

\* C25: get_crf_name returns the first form of the map, in the map's order,
\* that owns a field named by a variable of the log, returns None exactly when
\* no form owns one, and returns the same for the variables in any order
InstrumentResolution ==
    parsed.done =>
       LET map == get_project_instru_field_map(details_in.metadata)
           variables == [k \in 1..Len(details_in.pairs) |->
                            details_in.pairs[k].variable]
           owners == Owners(variables, map)
       IN /\ parsed.result =
                IF owners = {} THEN NoCrf
                ELSE map[CHOOSE m \in owners : \A o \in owners : m <= o].instru
          /\ \A other \in Orders(details_in.pairs) :
                get_crf_name(
                   extract_details(DetailString([details_in EXCEPT !.pairs = other])).dict,
                   map) = parsed.result

InstrumentResolutionWitness ==
    /\ parsed.done
    /\ Len(details_in.pairs) = 2
    /\ details_in.pairs[1].variable = Option(FieldR, <<"1">>)
    /\ details_in.pairs[2].variable = FieldA
    /\ details_in.metadata = Metadata
    /\ parsed.result = FormA

Knows(named, name) == \E k \in 1..Len(named) : named[k] = name

\* the arm the claim gives the log: the only arm, else the name in the arm
\* clause, else the known arm the text names, else the first arm
ClaimedArm(input) ==
    LET arms == input.project.arms
    IN IF Len(arms) = 1 THEN arms[1].name
       ELSE IF input.shape \in {"arm", "event_arm"} THEN ArmCatalogue[input.arm].name
       ELSE IF input.shape = "names" /\ Knows(arms, ArmCatalogue[input.arm])
       THEN ArmCatalogue[input.arm].name
       ELSE arms[1].name

\* the event the claim gives a log that is no DELETE
ClaimedEvent(input) ==
    LET events == input.project.events
    IN IF Len(events) = 1 THEN events[1].event_name
       ELSE IF input.shape = "event_arm" THEN input.event
       ELSE IF input.shape = "names" /\ Knows(events, Event(input.event))
       THEN input.event
       ELSE events[1].event_name

\* C26: arm_name and event_name are None without a longitudinal project; with
\* one, a DELETE log has its arm and no event, and any other log has its arm
\* and its event, each the only one, else from the pattern, else a known one
\* the text names, else the first
ArmEvent ==
    parsed.done =>
       parsed.result =
          IF details_in.project.is_longitudinal = 0 THEN Names(NoName, NoName)
          ELSE IF details_in.verb = DeleteRecord
          THEN Names(SomeName(ClaimedArm(details_in)), NoName)
          ELSE Names(SomeName(ClaimedArm(details_in)),
                     SomeName(ClaimedEvent(details_in)))

\* the statement-level scan ends with what extract_details gives
ScanAgrees ==
    parsed.phase = "end" => parsed.result = extract_details(details_in.text)

\* C27: on every string extract_details comes to an end, returning a mapping
\* or raising; the left cursor grows with every pass of the outer loop, and
\* the quote scan never takes the right cursor beyond the end of the string
ParserTermination ==
    /\ <>(parsed.phase = "end")
    /\ [](parsed.phase = "end" => (parsed.result.ok \/ parsed.result.err # "none"))
    /\ [](parsed.phase \in {"inner", "close"} => parsed.right <= Len(details_in.text))
    /\ [][IF parsed'.phase = "outer" /\ parsed.phase \in {"outer", "close"}
          THEN parsed'.left > parsed.left
          ELSE parsed'.left = parsed.left]_vars

ParserTerminationWitness ==
    /\ parsed.phase = "end"
    /\ parsed.result.ok
    /\ Len(parsed.result.dict) = 2
    /\ parsed.left > Len(details_in.text)
    /\ \E i \in 1..Len(parsed.result.dict) :
          /\ ~parsed.result.dict[i].isInt
          /\ Contains(parsed.result.dict[i].s, <<"'", ",", " ">>)

\* C28: after every run that ended without an error, every record log the
\* service holds from before the stored checkpoint was delivered to some run,
\* so that the runs to come, whose windows start at the checkpoint, skip none
NoLogSkipped ==
    pc = "done" =>
       \A i \in 1..Len(logging) :
          logging[i].timestamp < start_of_window(db.backup_info_RedCap, NoDate)
             => logging[i] \in window.fetched

\* row r of a table is in the table after the step, as it was
Kept(before, after, r) == r <= Len(after) /\ after[r] = before[r]

\* the soft-deleted CRF rows of mirror m on the triple of a pass
DeletedRowsOf(m, patient_name, crf_name, instance) ==
    {r \in RowsOfPatient(m, patient_name) :
        /\ m.CRF_RedCap[r].crf_name = crf_name
        /\ m.CRF_RedCap[r].instance = instance
        /\ m.CRF_RedCap[r].deleted = 1}

\* the pass just made found data at the service for a triple that has
\* soft-deleted rows only
Reappears(pass, patient_name) ==
    /\ pass.record_df # <<>>
    /\ DeletedRowsOf(pass.before, patient_name, pass.crf_name, pass.instance) # {}
    /\ ActiveRows(pass.before, patient_name, pass.crf_name, pass.instance) = {}

\* the pass appended one active CRF row of its triple
AppendsActiveRow(pass, patient_name) ==
    /\ pass.outcome = "created"
    /\ Len(pass.after.CRF_RedCap) = Len(pass.before.CRF_RedCap) + 1
    /\ ActiveRows(pass.after, patient_name, pass.crf_name, pass.instance)
          = {Len(pass.after.CRF_RedCap)}

\* C29: no step removes a patient, a CRF row or a field row: every row keeps
\* its id, its patient, form, instance and variable; a CRF row with deleted = 1
\* keeps deleted = 1; and a pass that finds data for a triple whose rows are
\* all soft-deleted appends a new active row
DeletionOnlyMarks ==
    [][/\ \A r \in 1..Len(db.patients) : Kept(db.patients, db'.patients, r)
       /\ \A r \in 1..Len(db.CRF_RedCap) :
             /\ r <= Len(db'.CRF_RedCap)
             /\ SameTriple(db.CRF_RedCap[r], db'.CRF_RedCap[r])
             /\ db.CRF_RedCap[r].deleted = 1 => db'.CRF_RedCap[r].deleted = 1
       /\ \A r \in 1..Len(db.CRF_Data_RedCap) :
             /\ r <= Len(db'.CRF_Data_RedCap)
             /\ db'.CRF_Data_RedCap[r].id_crf = db.CRF_Data_RedCap[r].id_crf
             /\ db'.CRF_Data_RedCap[r].redcap_variable
                   = db.CRF_Data_RedCap[r].redcap_variable
       /\ Len(trace') = Len(trace) + 1 =>
             (Reappears(trace'[Len(trace')], PatientOf(record_logs[idx]))
                => AppendsActiveRow(trace'[Len(trace')], PatientOf(record_logs[idx])))
      ]_vars

\* a patient's rows were soft-deleted by a DELETE log and a later pass of the
\* run created a new active row on the triple of one of them, which is still
\* there with deleted = 1
DeletionOnlyMarksWitness ==
    \E i \in Processed, j \in Processed :
       /\ i < j
       /\ trace[i].outcome = "deleted"
       /\ trace[j].outcome = "created"
       /\ Reappears(trace[j], PatientOf(record_logs[j]))
       /\ \E r \in DeletedRowsOf(trace[i].after, PatientOf(record_logs[i]),
                                 trace[j].crf_name, trace[j].instance) :
             /\ trace[i].before.CRF_RedCap[r].deleted = 0
             /\ db.CRF_RedCap[r].deleted = 1
             /\ \E k \in 1..Len(db.CRF_Data_RedCap) : db.CRF_Data_RedCap[k].id_crf = r

====
